---- MODULE Spec2Model ----
(***************************************************************************)
(* A model of robopoker's abstraction pipeline: the XOR-keyed metric store *)
(* and its greedy Earth-Mover's-Distance (clustering/metric.rs), the       *)
(* per-street encoder and its PGCOPY persistence (clustering/lookup.rs),   *)
(* the hierarchical k-means learner (clustering/layer.rs) and the query    *)
(* API (analysis/api.rs, mccfr/sampler.rs).                                *)
(*                                                                         *)
(* Numbers that the program holds as f32 are modelled as exact rationals   *)
(* <<numerator, denominator>> in lowest terms.  64-bit identities are      *)
(* modelled as naturals below 2^24 with the street in the high bits.       *)
(* Each part of the program has its own specification (SpecEmd, ...); the  *)
(* variables of the other parts stay at their initial values.              *)
(***************************************************************************)
EXTENDS Integers, Sequences, FiniteSets, TLC

VARIABLES
    mStore,     \* metric.rs: the BTreeMap<Pair, f32> a call is made on
    mCall,      \* metric.rs: the last call made on the store and its arguments
    mRet,       \* metric.rs: what that call returned (ok = FALSE: it panicked)
    lkMap,      \* lookup.rs: Lookup.0, the BTreeMap<Isomorphism, Abstraction>
    lkFiles,    \* lookup.rs: the bytes of the encoder file of each street
    lkLoaded,   \* lookup.rs: what Lookup::load returned
    lkPc,       \* lookup.rs: how far the encoder's life has come
    qEncoder,   \* api.rs, sampler.rs, lookup.rs: the encoder table queried
    qMetric,    \* api.rs: the metric table (xor -> dx)
    qCall,      \* the last query and its arguments
    qRet,       \* what the query returned (ok = FALSE: an Err or a panic)
    lyStreet,   \* layer.rs: Layer.street
    lyMetric,   \* layer.rs: Layer.metric
    lyPoints,   \* layer.rs: Layer.points, isomorphism -> histogram
    lyKmeans,   \* layer.rs: Layer.kmeans, abstraction -> centroid histogram
    lyLookup,   \* layer.rs: Layer.lookup, isomorphism -> abstraction
    lyNeighbors,\* layer.rs: the vector get_neighbor returned
    lySnapshot, \* layer.rs: the centroids as the last get_neighbor read them
    lyIter,     \* layer.rs: Lloyd iterations finished
    lySaved,    \* layer.rs: the artifacts saved so far, in order
    lyInner,    \* layer.rs: the street and the metric of the layer Layer::inner builds
    lyPc,       \* layer.rs: the position in Layer::cluster
    trGraph,    \* tree.rs: Tree.0, the DiGraph<Data, Edge> (nodes and edges in order)
    trCall,     \* tree.rs: the last call on the tree and its argument
    trRet       \* tree.rs: the Node that call returned (ok = FALSE: it panicked)

emdVars == <<mStore, mCall, mRet>>
lkVars == <<lkMap, lkFiles, lkLoaded, lkPc>>
qVars == <<qEncoder, qMetric, qCall, qRet>>
lyVars == <<lyStreet, lyMetric, lyPoints, lyKmeans, lyLookup, lyNeighbors,
            lySnapshot, lyIter, lySaved, lyInner, lyPc>>

trVars == <<trGraph, trCall, trRet>>

vars == <<emdVars, trVars, lkVars, qVars, lyVars, trVars>>

(***************************************************************************)
(* Bounds of the model.                                                    *)
(***************************************************************************)
IndexBits == 8      \* width of an abstraction's index below its street tag
NAbs      == 3      \* abstractions of one street in the metric model
MaxMass   == 3      \* largest total count of a histogram in the metric model
MaxDist   == 2      \* largest stored distance
NRanks    == 3      \* ranks of the deck (13 in the program)
CardBits  == 5      \* bits of one card in an observation's identity
MaxEntries == 3     \* entries of a learned encoder
NLabels   == 2      \* abstractions a learned encoder chooses from

(***************************************************************************)
(* Exact rationals for the program's f32 values.                           *)
(***************************************************************************)
RECURSIVE GCD(_, _)
GCD(a, b) ==
    IF b = 0 THEN a ELSE CHOOSE g \in {GCD(h[1], h[2]) : h \in {<<b, a % b>>}} : TRUE

Rat(n, d) ==
    CHOOSE r \in {IF h[1] = 0 THEN <<0, 1>> ELSE <<h[1] \div h[3], h[2] \div h[3]>> :
                    h \in {<<m, e, GCD(IF m < 0 THEN -m ELSE m, e)>> :
                                <<m, e>> \in {<<n, d>>}}} : TRUE

Zero == <<0, 1>>
RAdd(p, q)  == CHOOSE r \in {Rat(h[1][1] * h[2][2] + h[2][1] * h[1][2], h[1][2] * h[2][2]) : h \in {<<p, q>>}} : TRUE
RSub(p, q)  == CHOOSE r \in {Rat(h[1][1] * h[2][2] - h[2][1] * h[1][2], h[1][2] * h[2][2]) : h \in {<<p, q>>}} : TRUE
RMul(p, q)  == CHOOSE r \in {Rat(h[1][1] * h[2][1], h[1][2] * h[2][2]) : h \in {<<p, q>>}} : TRUE
RLess(p, q) == \E h \in {<<p, q>>} : h[1][1] * h[2][2] < h[2][1] * h[1][2]
RMin(p, q)  == CHOOSE r \in {IF RLess(h[2], h[1]) THEN h[2] ELSE h[1] : h \in {<<p, q>>}} : TRUE
RHalf(p)    == CHOOSE r \in {Rat(h[1], 2 * h[2]) : h \in {p}} : TRUE

(***************************************************************************)
(* Streets and abstractions.  An abstraction's identity is an integer      *)
(* whose high bits hold the street; a Pair is the XOR of two identities.   *)
(***************************************************************************)
Pref == 0
Flop == 1
Turn == 2
Rive == 3
Streets == {Pref, Flop, Turn, Rive}

StreetBase == 2 ^ IndexBits

Abstraction(s, k) == s * StreetBase + k
street(a) == a \div StreetBase
index(a)  == a % StreetBase

RECURSIVE Xor(_, _)
Xor(a, b) ==
    IF a = 0 THEN b
    ELSE IF b = 0 THEN a
    ELSE CHOOSE r \in {2 * Xor(h[1], h[2]) + (((a % 2) + (b % 2)) % 2) :
                        h \in {<<a \div 2, b \div 2>>}} : TRUE

Pair(a, b) == Xor(a, b)

(***************************************************************************)
(* Histograms: a map from the abstractions of its domain to positive       *)
(* counts.  weight is the density of an abstraction (count over norm).     *)
(***************************************************************************)
RECURSIVE SumOver(_, _)
SumOver(h, S) ==
    IF S = {} THEN 0
    ELSE CHOOSE r \in {h[a] + SumOver(h, T) :
                        <<a, T>> \in {<<x, S \ {x}>> : x \in {CHOOSE x \in S : TRUE}}} : TRUE

norm(h) == SumOver(h, DOMAIN h)
domain(h) == DOMAIN h
weight(h, a) == IF a \in DOMAIN h THEN Rat(h[a], norm(h)) ELSE Zero

RECURSIVE SortedSeq(_)
SortedSeq(S) ==
    IF S = {} THEN <<>>
    ELSE CHOOSE r \in {<<m>> \o SortedSeq(T) :
                        <<m, T>> \in {<<x, S \ {x}>> :
                                        x \in {CHOOSE x \in S : \A y \in S : x <= y}}} : TRUE

(***************************************************************************)
(* Metric::distance (metric.rs 76-79): the stored value under Pair(x, y),  *)
(* a panic ("precalculated distance") when the store has no such key.      *)
(***************************************************************************)
Panic == [ok |-> FALSE, val |-> Zero]
Ok(v) == [ok |-> TRUE, val |-> v]

distance_ordered(store, x, y) ==
    IF x <= y
    THEN (IF Pair(x, y) \in DOMAIN store THEN Ok(store[Pair(x, y)]) ELSE Panic)
    ELSE Ok(Zero)

distance(store, x, y) ==
    IF Pair(x, y) \in DOMAIN store THEN Ok(store[Pair(x, y)]) ELSE Panic

(***************************************************************************)
(* Metric::emd (metric.rs 27-75), the greedy Earth-Mover's-Distance.       *)
(***************************************************************************)
\* lines 50-52: every hole of y with its distance from the pile
RECURSIVE hole_distances(_, _, _, _)
hole_distances(store, pile, ys, i) ==
    IF i > Len(ys) THEN <<>>
    ELSE <<(<<ys[i], distance(store, pile, ys[i])>>)>> \o hole_distances(store, pile, ys, i + 1)

nearest_hole_max(store, pile, ys) ==
    CHOOSE r \in {
        IF \E i \in 1..Len(ds) : ~ds[i][2].ok
        THEN [ok |-> FALSE, hole |-> 0, dist |-> Zero]
        ELSE LET i == CHOOSE i \in 1..Len(ds) :
                        \A j \in 1..Len(ds) :
                            /\ (j < i => RLess(ds[j][2].val, ds[i][2].val))
                            /\ (j > i => ~RLess(ds[i][2].val, ds[j][2].val))
             IN [ok |-> TRUE, hole |-> ds[i][1], dist |-> ds[i][2].val] :
        ds \in {hole_distances(store, pile, ys, 1)}} : TRUE

\* lines 50-54: the nearest neighbour of pile in y; min_by keeps the first
\* of several equal minima, and every distance of the pile is looked up.
nearest_hole(store, pile, ys) ==
    CHOOSE r \in {
        IF \E i \in 1..Len(ds) : ~ds[i][2].ok
        THEN [ok |-> FALSE, hole |-> 0, dist |-> Zero]
        ELSE LET i == CHOOSE i \in 1..Len(ds) :
                        \A j \in 1..Len(ds) :
                            /\ (j < i => RLess(ds[i][2].val, ds[j][2].val))
                            /\ (j > i => ~RLess(ds[j][2].val, ds[i][2].val))
             IN [ok |-> TRUE, hole |-> ds[i][1], dist |-> ds[i][2].val] :
        ds \in {hole_distances(store, pile, ys, 1)}} : TRUE

emd_start_weighted(source, target) ==
    [ok       |-> TRUE,
     energy   |-> Zero,
     hasmoved |-> [a \in domain(source) |-> FALSE],
     notmoved |-> [a \in domain(source) |-> weight(source, a)],
     unfilled |-> [a \in domain(target) |-> weight(target, a)]]

\* lines 31-42: the three maps at the start
emd_start(source, target) ==
    [ok       |-> TRUE,
     energy   |-> Zero,
     hasmoved |-> [a \in domain(source) |-> FALSE],
     notmoved |-> [a \in domain(source) |-> Rat(1, Cardinality(domain(source)))],
     unfilled |-> [a \in domain(target) |-> weight(target, a)]]

emd_pile_redirected(store, st, pile, ys) ==
    IF ~st.ok \/ st.hasmoved[pile] THEN st
    ELSE CHOOSE r \in {
             IF ~n.ok THEN [st EXCEPT !.ok = FALSE]
             ELSE IF n.hole = 0 - 1 THEN st
             ELSE LET demand == st.notmoved[pile]
                      vacant == st.unfilled[n.hole]
                      e == RAdd(st.energy, RMul(n.dist, RMin(demand, vacant)))
                  IN  IF RLess(vacant, demand)
                      THEN [st EXCEPT !.energy = e,
                                      !.notmoved[pile] = RSub(demand, vacant),
                                      !.unfilled[n.hole] = Zero]
                      ELSE [st EXCEPT !.energy = e,
                                      !.hasmoved[pile] = TRUE,
                                      !.notmoved[pile] = Zero,
                                      !.unfilled[n.hole] = RSub(vacant, demand)] :
             n \in {LET open(y) == RLess(Zero, st.unfilled[y])
                    IN  IF SelectSeq(ys, open) = <<>>
                        THEN [ok |-> TRUE, hole |-> 0 - 1, dist |-> Zero]
                        ELSE nearest_hole(store, pile, SelectSeq(ys, open))}} : TRUE

\* lines 45-71: the body of the inner loop for one pile
emd_pile(store, st, pile, ys) ==
    IF ~st.ok \/ st.hasmoved[pile] THEN st
    ELSE CHOOSE r \in {
             IF ~n.ok THEN [st EXCEPT !.ok = FALSE]
             ELSE LET demand == st.notmoved[pile]
                      vacant == st.unfilled[n.hole]
                      e == RAdd(st.energy, RMul(n.dist, RMin(demand, vacant)))
                  IN  IF ~RLess(Zero, vacant) THEN st
                      ELSE IF RLess(vacant, demand)
                           THEN [st EXCEPT !.energy = e,
                                           !.notmoved[pile] = RSub(demand, vacant),
                                           !.unfilled[n.hole] = Zero]
                           ELSE [st EXCEPT !.energy = e,
                                           !.hasmoved[pile] = TRUE,
                                           !.notmoved[pile] = Zero,
                                           !.unfilled[n.hole] = RSub(vacant, demand)] :
             n \in {nearest_hole(store, pile, ys)}} : TRUE

\* line 44: one pass over the piles of x, in the order of the domain
RECURSIVE emd_round(_, _, _, _, _)
emd_round(store, st, xs, i, ys) ==
    IF i > Len(xs) THEN st
    ELSE CHOOSE r \in {emd_round(store, s, xs, i + 1, ys) :
                        s \in {emd_pile(store, st, xs[i], ys)}} : TRUE

\* line 43: as many passes as y has elements
RECURSIVE emd_rounds(_, _, _, _, _)
emd_rounds(store, st, xs, ys, r) ==
    IF r = 0 THEN st
    ELSE CHOOSE t \in {emd_rounds(store, s, xs, ys, r - 1) :
                        s \in {emd_round(store, st, xs, 1, ys)}} : TRUE

emd_run_short(store, source, target) ==
    CHOOSE r \in {emd_rounds(store, h[1], h[2], h[3], IF h[3] = <<>> THEN 0 ELSE Len(h[3]) - 1) :
                    h \in {<<emd_start(source, target),
                              SortedSeq(domain(source)), SortedSeq(domain(target))>>}} : TRUE

\* lines 27-75: the maps, the two domains in their order, and the rounds
emd_run(store, source, target) ==
    CHOOSE r \in {emd_rounds(store, h[1], h[2], h[3], Len(h[3])) :
                    h \in {<<emd_start(source, target),
                              SortedSeq(domain(source)), SortedSeq(domain(target))>>}} : TRUE

emd(store, source, target) ==
    CHOOSE r \in {IF st.ok THEN Ok(st.energy) ELSE Panic :
                    st \in {emd_run(store, source, target)}} : TRUE


(***************************************************************************)
(* Cards, observations and isomorphisms.  A card is rank * 4 + suit; an    *)
(* observation is its pocket and its public cards; its isomorphism is the  *)
(* suit relabelling of it with the smallest identity.                      *)
(***************************************************************************)
Deck == 0..(NRanks * 4 - 1)
CardBase == 2 ^ CardBits

SuitPerms == {p \in [0..3 -> 0..3] : \A a, b \in 0..3 : a # b => p[a] # p[b]}
PermCard(p, c) == (c \div 4) * 4 + p[c % 4]
permute(p, o) ==
    [pocket |-> {PermCard(p, c) : c \in o.pocket},
     public |-> {PermCard(p, c) : c \in o.public}]

\* i64::from(Observation): the cards, pocket first, one after the other
RECURSIVE PackCards(_, _, _)
PackCards(cs, i, acc) ==
    IF i > Len(cs) THEN acc ELSE PackCards(cs, i + 1, acc * CardBase + cs[i] + 1)

ObsToI64(o) == PackCards(SortedSeq(o.pocket) \o SortedSeq(o.public), 1, 0)

\* Observation::from(i64): the first two cards are the pocket
RECURSIVE UnpackCards(_)
UnpackCards(v) ==
    IF v = 0 THEN <<>> ELSE UnpackCards(v \div CardBase) \o <<(v % CardBase) - 1>>

ObsFromI64(v) ==
    LET cs == UnpackCards(v)
    IN [pocket |-> {cs[i] : i \in {j \in 1..Len(cs) : j <= 2}},
        public |-> {cs[i] : i \in {j \in 1..Len(cs) : j > 2}}]

ObsStreet(o) ==
    CASE Cardinality(o.public) = 0 -> Pref
      [] Cardinality(o.public) = 3 -> Flop
      [] Cardinality(o.public) = 4 -> Turn
      [] OTHER -> Rive

Orbit(o) == {permute(p, o) : p \in SuitPerms}

canonical(o) ==
    LET ids == {<<ObsToI64(q), q>> : q \in Orbit(o)}
    IN  (CHOOSE m \in ids : \A q \in ids : m[1] <= q[1])[2]

Isomorphism(o) == canonical(o)
is_canonical(o) == canonical(o) = o

\* Observation::exhaust(Pref) and the isomorphisms among them
PrefObs == {[pocket |-> P, public |-> {}] : P \in {S \in SUBSET Deck : Cardinality(S) = 2}}
PrefIsos == {o \in PrefObs : is_canonical(o)}

\* the Flop observations the model learns an encoder for
FlopSeeds ==
    {[pocket |-> {0, 1}, public |-> {4, 5, 6}],
     [pocket |-> {0, 4}, public |-> {1, 2, 5}],
     [pocket |-> {0, 5}, public |-> {1, 4, 6}],
     [pocket |-> {2, 3}, public |-> {0, 1, 7}]}
FlopObs == UNION {Orbit(o) : o \in FlopSeeds}
FlopIsos == {o \in FlopObs : is_canonical(o)}

\* the keys of a map in the order of a BTreeMap<Isomorphism, _>
RECURSIVE IsoSeq(_)
IsoSeq(S) ==
    IF S = {} THEN <<>>
    ELSE LET m == CHOOSE x \in S : \A y \in S : ObsToI64(x) <= ObsToI64(y)
         IN <<m>> \o IsoSeq(S \ {m})

(***************************************************************************)
(* Big-endian words (byteorder::BE).                                       *)
(***************************************************************************)
RECURSIVE BE(_, _)
BE(v, n) == IF n = 0 THEN <<>> ELSE BE(v \div 256, n - 1) \o <<v % 256>>

RECURSIVE FromBE(_, _)
FromBE(bytes, acc) ==
    IF bytes = <<>> THEN acc ELSE FromBE(Tail(bytes), acc * 256 + Head(bytes))

(***************************************************************************)
(* Lookup (lookup.rs).                                                     *)
(***************************************************************************)
EmptyMap == [o \in {} |-> 0]

\* Lookup::street (lookup.rs 41-43), of a map that is not empty
lookup_street(map) == ObsStreet(IsoSeq(DOMAIN map)[1])

make_pref_from_one ==
    LET isos == IsoSeq(PrefIsos)
    IN [o \in PrefIsos |->
            Abstraction(Pref, CHOOSE k \in 1..Len(isos) : isos[k] = o)]

\* Lookup::make(Pref) (lookup.rs 61-65): enumerate() counts from 0
make_pref ==
    LET isos == IsoSeq(PrefIsos)
    IN [o \in PrefIsos |->
            Abstraction(Pref, (CHOOSE k \in 1..Len(isos) : isos[k] = o) - 1)]

Header == <<80, 71, 67, 79, 80, 89, 10, 255, 13, 10, 0>>

save_entry_short(o, a) == BE(2, 2) \o BE(ObsToI64(o), 8) \o BE(a, 8)

\* lookup.rs 113-118: one record
save_entry(o, a) ==
    BE(2, 2) \o BE(8, 4) \o BE(ObsToI64(o), 8) \o BE(8, 4) \o BE(a, 8)

RECURSIVE save_entries(_, _, _)
save_entries(map, isos, i) ==
    IF i > Len(isos) THEN <<>>
    ELSE save_entry(isos[i], map[isos[i]]) \o save_entries(map, isos, i + 1)

\* Lookup::save (lookup.rs 100-121): the bytes written to the file
save(map) ==
    Header \o BE(0, 4) \o BE(0, 4)
           \o save_entries(map, IsoSeq(DOMAIN map), 1)
           \o BE(65535, 2)

Insert(map, o, a) == [x \in DOMAIN map \cup {o} |-> IF x = o THEN a ELSE map[x]]

\* lookup.rs 84-97: read records until the field count is not 2 or the
\* file ends; a record cut short is a panic (expect)
RECURSIVE load_records(_, _, _)
load_records(bytes, pos, map) ==
    IF pos + 1 > Len(bytes) THEN [ok |-> TRUE, map |-> map]
    ELSE IF FromBE(SubSeq(bytes, pos, pos + 1), 0) # 2 THEN [ok |-> TRUE, map |-> map]
    ELSE IF pos + 25 > Len(bytes) THEN [ok |-> FALSE, map |-> map]
    ELSE LET iso == FromBE(SubSeq(bytes, pos + 6, pos + 13), 0)
             abs == FromBE(SubSeq(bytes, pos + 18, pos + 25), 0)
         IN load_records(bytes, pos + 26, Insert(map, ObsFromI64(iso), abs))

load_seek_signature == Len(Header)

\* lookup.rs 83: seek(SeekFrom::Start(19))
load_seek == 19

load_from(bytes, start) == load_records(bytes, start + 1, EmptyMap)

\* Lookup::load (lookup.rs 69-99): seek past the header, then the records
load(bytes) == load_from(bytes, load_seek)

(***************************************************************************)
(* Every part of the model at rest: a specification starts its own part    *)
(* and keeps the others there.                                             *)
(***************************************************************************)
NoHist == [a \in {} |-> 0]
NoCall == [op |-> "none", a |-> <<0, 0>>, h |-> <<NoHist, NoHist>>]
NoStore == [k \in {} |-> Zero]

EmdIdle ==
    /\ mStore = NoStore
    /\ mCall = NoCall
    /\ mRet = Ok(Zero)

LkIdle ==
    /\ lkMap = EmptyMap
    /\ lkFiles = [s \in Streets |-> <<>>]
    /\ lkLoaded = [ok |-> TRUE, street |-> Pref, map |-> EmptyMap]
    /\ lkPc = "new"

NoQuery == [op |-> "none", obs |-> [pocket |-> {}, public |-> {}], a |-> <<0, 0>>]
NoAnswer == [ok |-> TRUE, abs |-> 0, dx |-> Zero, queries |-> <<>>]

QIdle ==
    /\ qEncoder = EmptyMap
    /\ qMetric = NoStore
    /\ qCall = NoQuery
    /\ qRet = NoAnswer

\* no inner layer has been built
NoLayer == [ok |-> TRUE, street |-> Pref, store |-> NoStore]

LyIdle ==
    /\ lyStreet = Pref
    /\ lyMetric = NoStore
    /\ lyPoints = <<>>
    /\ lyKmeans = NoHist
    /\ lyLookup = NoHist
    /\ lyNeighbors = <<>>
    /\ lySnapshot = NoHist
    /\ lyIter = 0
    /\ lySaved = <<>>
    /\ lyInner = NoLayer
    /\ lyPc = "idle"

\* DiGraph::with_capacity(0, 0): no node and no edge
NoGraph == [nodes |-> <<>>, edges |-> <<>>]

\* Data::from((game, abstraction)): the bucket is assigned later, by Tree::insert
Data(game) == [game |-> game, bucket |-> [some |-> FALSE, present |-> 0]]

\* Branch(Data, Edge, NodeIndex)
Branch(data, edge, root) == <<data, edge, root>>

NoTreeCall == [op |-> "none", branch |-> Branch(Data(0), "none", 0)]
NoNode == [ok |-> TRUE, index |-> 0]

\* Tree::empty
TrIdle ==
    /\ trGraph = NoGraph
    /\ trCall = NoTreeCall
    /\ trRet = NoNode

(***************************************************************************)
(* SpecLookup: an encoder is made or learned, saved and loaded.            *)
(***************************************************************************)
LkInit == LkIdle /\ TrIdle /\ EmdIdle /\ QIdle /\ LyIdle

\* Lookup::make(Pref)
MakePref ==
    /\ lkPc = "new" /\ lkMap = EmptyMap
    /\ lkMap' = make_pref
    /\ lkPc' = "made"
    /\ UNCHANGED <<lkFiles, lkLoaded, emdVars, trVars, qVars, lyVars>>

\* layer.rs 214, Encoder::assign: a learned encoder gets one more entry
\* (or an entry is overwritten); all entries are of the Flop
Assign ==
    \E o \in FlopIsos, k \in 0..(NLabels - 1) :
        /\ lkPc = "new"
        /\ Cardinality(DOMAIN lkMap \cup {o}) <= MaxEntries
        /\ lkMap' = Insert(lkMap, o, Abstraction(Flop, k))
        /\ UNCHANGED <<lkPc, lkFiles, lkLoaded, emdVars, trVars, qVars, lyVars>>

\* Lookup::save: the street is that of the first key, an empty map panics
Save ==
    /\ lkPc \in {"new", "made"}
    /\ IF lkMap = EmptyMap
       THEN lkPc' = "panic" /\ UNCHANGED lkFiles
       ELSE /\ lkFiles' = [lkFiles EXCEPT ![lookup_street(lkMap)] = save(lkMap)]
            /\ lkPc' = "saved"
    /\ UNCHANGED <<lkMap, lkLoaded, emdVars, trVars, qVars, lyVars>>

\* Lookup::load(street): a street without a file panics (File::open)
Load ==
    \E s \in Streets :
        /\ lkPc = "saved"
        /\ IF lkFiles[s] = <<>>
           THEN lkPc' = "panic" /\ UNCHANGED lkLoaded
           ELSE /\ lkLoaded' = [ok |-> load(lkFiles[s]).ok, street |-> s,
                                map |-> load(lkFiles[s]).map]
                /\ lkPc' = "loaded"
        /\ UNCHANGED <<lkMap, lkFiles, emdVars, trVars, qVars, lyVars>>

LkNext == MakePref \/ Assign \/ Save \/ Load

SpecLookup == LkInit /\ [][LkNext]_vars

SavedFile == lkFiles[lookup_street(lkMap)]
SavedRecord(i) == SubSeq(SavedFile, 19 + 26 * (i - 1) + 1, 19 + 26 * i)

(***************************************************************************)
(* C4: the encoder round-trips through its file: load(street) after save   *)
(* of a non-empty encoder of that street returns the same entries, none    *)
(* lost, none added, none changed.                                         *)
(***************************************************************************)
C4_SaveLoadRoundTrip ==
    (lkPc = "loaded" /\ lkLoaded.street = lookup_street(lkMap))
    => /\ lkLoaded.ok
       /\ DOMAIN lkLoaded.map = DOMAIN lkMap
       /\ \A o \in DOMAIN lkMap : lkLoaded.map[o] = lkMap[o]

\* a learned encoder of several entries and two abstractions was loaded back
C4_Witness ==
    /\ lkPc = "loaded"
    /\ lkLoaded.street = Flop
    /\ Cardinality(DOMAIN lkMap) >= 2
    /\ \E o, q \in DOMAIN lkMap : lkMap[o] # lkMap[q]
    /\ lkLoaded.map = lkMap

(***************************************************************************)
(* C5 as stated: save writes 19 + 20 * n + 2 bytes for n entries.          *)
(***************************************************************************)
C5_SaveLength20 ==
    lkPc \in {"saved", "loaded"}
    => Len(SavedFile) = 19 + 20 * Cardinality(DOMAIN lkMap) + 2

(***************************************************************************)
(* C5 amended: save writes 19 + 26 * n + 2 bytes for n entries: the        *)
(* 11-byte PGCOPY signature and two zero u32 words, then per entry, in     *)
(* ascending order of the isomorphisms, u16be 2, u32be 8, i64be            *)
(* isomorphism, u32be 8, i64be abstraction, and the trailer u16be 0xFFFF.  *)
(***************************************************************************)
C5_SaveLayout ==
    lkPc \in {"saved", "loaded"}
    => LET n == Cardinality(DOMAIN lkMap)
           f == SavedFile
           isos == IsoSeq(DOMAIN lkMap)
       IN /\ Len(f) = 19 + 26 * n + 2
          /\ SubSeq(f, 1, 11) = <<80, 71, 67, 79, 80, 89, 10, 255, 13, 10, 0>>
          /\ \A i \in 12..19 : f[i] = 0
          /\ \A i \in 1..n :
                LET r == SavedRecord(i)
                IN /\ SubSeq(r, 1, 2) = <<0, 2>>
                   /\ SubSeq(r, 3, 6) = <<0, 0, 0, 8>>
                   /\ FromBE(SubSeq(r, 7, 14), 0) = ObsToI64(isos[i])
                   /\ SubSeq(r, 15, 18) = <<0, 0, 0, 8>>
                   /\ FromBE(SubSeq(r, 19, 26), 0) = lkMap[isos[i]]
          /\ \A i, j \in 1..n :
                i < j => FromBE(SubSeq(SavedRecord(i), 7, 14), 0)
                            < FromBE(SubSeq(SavedRecord(j), 7, 14), 0)
          /\ SubSeq(f, Len(f) - 1, Len(f)) = <<255, 255>>

\* an encoder of three entries has been saved
C5_Witness ==
    /\ lkPc = "saved"
    /\ Cardinality(DOMAIN lkMap) = 3
    /\ Len(SavedFile) = 19 + 26 * 3 + 2

(***************************************************************************)
(* C10: after make(Preflop) the encoder has one entry per Preflop          *)
(* isomorphism, the k-th in enumeration order mapped to the abstraction    *)
(* (Preflop, k); the abstractions are pairwise distinct and their indices  *)
(* are 0..n-1, n being the square of the number of ranks (169 for 13).     *)
(***************************************************************************)
C10_MakePreflop ==
    lkPc = "made"
    => LET n == Cardinality(PrefIsos)
       IN /\ DOMAIN lkMap = PrefIsos
          /\ n = NRanks * NRanks
          /\ \A o \in PrefIsos :
                /\ street(lkMap[o]) = Pref
                /\ index(lkMap[o])
                     = Cardinality({q \in PrefIsos : ObsToI64(q) < ObsToI64(o)})
          /\ \A o, q \in PrefIsos : o # q => lkMap[o] # lkMap[q]
          /\ {index(lkMap[o]) : o \in PrefIsos} = 0..(n - 1)

\* make(Preflop) has run; pairs, suited and offsuit hands have their entries
C10_Witness ==
    /\ lkPc = "made"
    /\ \E o \in DOMAIN lkMap : index(lkMap[o]) = 0
    /\ \E o \in DOMAIN lkMap : index(lkMap[o]) = NRanks * NRanks - 1
    /\ \E o \in DOMAIN lkMap : \A c, d \in o.pocket : c \div 4 = d \div 4
    /\ \E o \in DOMAIN lkMap : \E c, d \in o.pocket : c # d /\ c % 4 = d % 4
    /\ \E o \in DOMAIN lkMap : \E c, d \in o.pocket : c \div 4 # d \div 4 /\ c % 4 # d % 4

(***************************************************************************)
(* SpecEmd: calls of distance and emd on an arbitrary metric store.        *)
(***************************************************************************)
MetricAbs == {Abstraction(Turn, k) : k \in 0..(NAbs - 1)}
MetricKeys == {Pair(a, b) : a, b \in MetricAbs}
Dists == {<<n, 1>> : n \in 0..MaxDist}

\* the stores over the keys of MetricAbs with at most one key missing; the
\* key of a pair (a, a), which is 0, holds 0 when it is there
StoreDomains == {MetricKeys} \cup {MetricKeys \ {k} : k \in MetricKeys}
Stores ==
    UNION {{s \in [D -> Dists] : 0 \in D => s[0] = Zero} : D \in StoreDomains}

Histograms ==
    {h \in UNION {[D -> 1..MaxMass] : D \in SUBSET MetricAbs} : norm(h) <= MaxMass}

EmdInit ==
    /\ mStore \in Stores
    /\ mCall = NoCall
    /\ mRet = Ok(Zero)
    /\ LkIdle /\ TrIdle /\ QIdle /\ LyIdle

CallDistance ==
    \E x, y \in MetricAbs :
        /\ mCall.op = "none"
        /\ mCall' = [op |-> "distance", a |-> <<x, y>>, h |-> <<NoHist, NoHist>>]
        /\ mRet' = distance(mStore, x, y)
        /\ UNCHANGED <<mStore, lkVars, qVars, lyVars, trVars>>

CallEmd ==
    \E p, q \in Histograms :
        /\ mCall.op = "none"
        /\ mCall' = [op |-> "emd", a |-> <<0, 0>>, h |-> <<p, q>>]
        /\ mRet' = emd(mStore, p, q)
        /\ UNCHANGED <<mStore, lkVars, qVars, lyVars, trVars>>

\* the call is over: the store is as it was, ready for the next call
Return ==
    /\ mCall.op # "none"
    /\ mCall' = NoCall
    /\ mRet' = Ok(Zero)
    /\ UNCHANGED <<mStore, lkVars, qVars, lyVars, trVars>>

EmdNext == CallDistance \/ CallEmd \/ Return

SpecEmd == EmdInit /\ [][EmdNext]_vars

\* the store is a metric on the abstractions of S: every pair of S has its
\* key, and the key of (a, a) holds 0
MetricOn(store, S) ==
    /\ 0 \in DOMAIN store /\ store[0] = Zero
    /\ \A a, b \in S : Pair(a, b) \in DOMAIN store

(***************************************************************************)
(* C1: the greedy EMD of a histogram to itself is exactly 0, whatever its  *)
(* weights, under every store that is a metric on its domain (distance 0   *)
(* from an abstraction to itself, no negative distance).                   *)
(***************************************************************************)
C1_EmdSelfIsZero ==
    (/\ mCall.op = "emd"
     /\ mCall.h[1] = mCall.h[2]
     /\ MetricOn(mStore, domain(mCall.h[1])))
    => mRet = Ok(Zero)

\* a histogram of unequal weights (the demand 1/|X| differs from the
\* vacancy) under a store of positive distances
C1_Witness ==
    /\ mCall.op = "emd"
    /\ mCall.h[1] = mCall.h[2]
    /\ MetricOn(mStore, domain(mCall.h[1]))
    /\ \E a, b \in domain(mCall.h[1]) :
          /\ mCall.h[1][a] > mCall.h[1][b]
          /\ RLess(Zero, mStore[Pair(a, b)])
    /\ mRet = Ok(Zero)

(***************************************************************************)
(* C2: distance(a, a) returns 0 for every abstraction a, also when the     *)
(* store holds no entry under Pair(a, a).                                  *)
(***************************************************************************)
C2_SelfDistanceIsZero ==
    (mCall.op = "distance" /\ mCall.a[1] = mCall.a[2]) => mRet = Ok(Zero)

(***************************************************************************)
(* C3: distance(a, b) and distance(b, a) agree for abstractions of one     *)
(* street: the same value, or both panic.                                  *)
(***************************************************************************)
C3_DistanceSymmetric ==
    mCall.op = "distance"
    => /\ street(mCall.a[1]) = street(mCall.a[2])
       /\ mRet = distance(mStore, mCall.a[2], mCall.a[1])

\* a call on two different abstractions that returned a positive distance
C3_Witness ==
    /\ mCall.op = "distance"
    /\ mCall.a[1] < mCall.a[2]
    /\ mRet.ok /\ RLess(Zero, mRet.val)
    /\ mRet = distance(mStore, mCall.a[2], mCall.a[1])

C22_SourceOnlyThroughSupport ==
    mCall.op = "emd" =>
        \A p \in Histograms :
            domain(p) = domain(mCall.h[1]) => emd(mStore, p, mCall.h[2]) = mRet

\* a source of two piles of different weights, a single hole at different
\* distances from them: the result is the plain mean of the two distances
C22_Witness ==
    /\ mCall.op = "emd"
    /\ \E a, b, c \in MetricAbs :
          /\ a # b /\ a # c /\ b # c
          /\ domain(mCall.h[1]) = {a, b} /\ domain(mCall.h[2]) = {c}
          /\ mCall.h[1][a] # mCall.h[1][b]
          /\ MetricOn(mStore, {a, b, c})
          /\ mStore[Pair(a, c)] # mStore[Pair(b, c)]
          /\ mRet = Ok(RHalf(RAdd(mStore[Pair(a, c)], mStore[Pair(b, c)])))

\* the sum of the values of a map of fractions
RECURSIVE RSum(_, _)
RSum(f, S) ==
    IF S = {} THEN Zero
    ELSE CHOOSE r \in {RAdd(f[x], RSum(f, S \ {x})) : x \in {CHOOSE x \in S : TRUE}} : TRUE

\* lines 50-54: the element of Y nearest to x, the first of several
first_nearest(store, x, Y) ==
    CHOOSE h \in Y : \A y \in Y :
        \/ RLess(store[Pair(x, h)], store[Pair(x, y)])
        \/ (store[Pair(x, h)] = store[Pair(x, y)] /\ h <= y)

\* what the pile x has moved when emd ends in the state st
moved(st, x) == RSub(Rat(1, Cardinality(DOMAIN st.notmoved)), st.notmoved[x])

\* C23: in the greedy EMD the target of a pile is always its nearest element
\* of Y, whatever vacancy is left there: once that target has no vacancy the
\* pile moves nothing, adds nothing to the cost and keeps its demand in that
\* round and in every later one (it is never sent to the next nearest), so
\* the mass moved can be less than the mass of the source although the
\* targets have room.
C23_PileSticksToNearest ==
    (/\ mCall.op = "emd"
     /\ domain(mCall.h[1]) # {} /\ domain(mCall.h[2]) # {}
     /\ MetricOn(mStore, domain(mCall.h[1]) \cup domain(mCall.h[2])))
    => \A st \in {emd_run(mStore, mCall.h[1], mCall.h[2])} :
        LET X == domain(mCall.h[1])
            Y == domain(mCall.h[2])
            hole == [x \in X |-> first_nearest(mStore, x, Y)]
        IN  /\ st.ok
            /\ st = emd_rounds(mStore, emd_start(mCall.h[1], mCall.h[2]),
                               SortedSeq(X), SortedSeq(Y), 1)
            /\ \A x \in X :
                \/ st.hasmoved[x] /\ st.notmoved[x] = Zero
                \/ ~st.hasmoved[x] /\ RLess(Zero, st.notmoved[x]) /\ st.unfilled[hole[x]] = Zero
            /\ \A y \in Y :
                st.unfilled[y] =
                    RSub(weight(mCall.h[2], y),
                         RSum([x \in X |-> moved(st, x)], {x \in X : hole[x] = y}))
            /\ mRet = Ok(RSum([x \in X |-> RMul(mStore[Pair(x, hole[x])], moved(st, x))], X))

\* a pile has demand left at the end although a target other than its
\* nearest has room, and there was a later round to send it there
C23_Witness ==
    /\ mCall.op = "emd"
    /\ Cardinality(domain(mCall.h[2])) >= 2
    /\ MetricOn(mStore, domain(mCall.h[1]) \cup domain(mCall.h[2]))
    /\ \E st \in {emd_run(mStore, mCall.h[1], mCall.h[2])} :
          /\ \E x \in domain(mCall.h[1]) : RLess(Zero, st.notmoved[x])
          /\ \E y \in domain(mCall.h[2]) : RLess(Zero, st.unfilled[y])
          /\ RLess(Zero, st.energy)

(***************************************************************************)
(* Queries of the encoder and of the metric table (lookup.rs, api.rs,      *)
(* sampler.rs).  An answer holds what came back and the SQL queries the    *)
(* call issued.                                                            *)
(***************************************************************************)
Answer(ok, abs, dx, queries) ==
    [ok |-> ok, abs |-> abs, dx |-> dx, queries |-> queries]
Failed(queries) == Answer(FALSE, 0, Zero, queries)

lookup_raw(map, obs) ==
    IF obs \in DOMAIN map THEN Answer(TRUE, map[obs], Zero, <<>>)
    ELSE Failed(<<>>)

\* Lookup::lookup (lookup.rs 16-21): expect() panics when the key is missing
lookup(map, obs) ==
    LET iso == Isomorphism(obs)
    IN  IF iso \in DOMAIN map THEN Answer(TRUE, map[iso], Zero, <<>>)
        ELSE Failed(<<>>)

\* the rows (obs, abs) of the SQL table encoder holding the entries of map
encoder_rows(map) == {<<ObsToI64(o), map[o]>> : o \in DOMAIN map}

\* query_one: an Err unless exactly one row comes back
query_one(rows, q) ==
    IF Cardinality(rows) = 1
    THEN Answer(TRUE, (CHOOSE r \in rows : TRUE)[2], Zero, <<q>>)
    ELSE Failed(<<q>>)

\* API::encode (api.rs 36-49)
encode(map, obs) ==
    LET iso == ObsToI64(Isomorphism(obs))
    IN  query_one({r \in encoder_rows(map) : r[1] = iso},
                  [table |-> "encoder", key |-> iso])

\* Encoding::abstraction (sampler.rs 26-31), of the observation of the game
abstraction(map, obs) ==
    LET iso == Isomorphism(obs)
    IN  IF iso \in DOMAIN map THEN Answer(TRUE, map[iso], Zero, <<>>)
        ELSE Failed(<<>>)

metric_query(table, x, y) ==
    LET xor == Pair(x, y)
    IN  IF xor \in DOMAIN table
        THEN Answer(TRUE, 0, table[xor], <<[table |-> "metric", key |-> xor]>>)
        ELSE Failed(<<[table |-> "metric", key |-> xor]>>)

abs_distance_unchecked(table, abs1, abs2) ==
    IF abs1 = abs2 THEN Answer(TRUE, 0, Zero, <<>>)
    ELSE metric_query(table, abs1, abs2)

\* API::abs_distance (api.rs 134-148)
abs_distance(table, abs1, abs2) ==
    IF street(abs1) # street(abs2) THEN Failed(<<>>)
    ELSE IF abs1 = abs2 THEN Answer(TRUE, 0, Zero, <<>>)
    ELSE metric_query(table, abs1, abs2)

encoder_query(op, map, obs) ==
    CASE op = "lookup" -> lookup(map, obs)
      [] op = "encode" -> encode(map, obs)
      [] op = "abstraction" -> abstraction(map, obs)

(***************************************************************************)
(* SpecQuery: queries on an encoder and a metric table.                    *)
(***************************************************************************)
QueryObs == PrefObs \cup FlopObs
QueryAbs == {Abstraction(s, k) : s \in {Flop, Turn}, k \in 0..(NAbs - 1)}

\* a learned Flop encoder: the labels go round the isomorphisms in key order
flop_encoder(shift) ==
    LET isos == IsoSeq(FlopIsos)
    IN [o \in FlopIsos |->
            Abstraction(Flop, ((CHOOSE k \in 1..Len(isos) : isos[k] = o) + shift) % NLabels)]

Without(map, o) == [x \in DOMAIN map \ {o} |-> map[x]]
Merge(f, g) == [x \in DOMAIN f \cup DOMAIN g |-> IF x \in DOMAIN f THEN f[x] ELSE g[x]]

\* the encoders queried: whole, or with the first entry of a street missing
EncoderTables ==
    UNION {LET whole == Merge(make_pref, flop_encoder(shift))
           IN  {whole, Without(whole, IsoSeq(PrefIsos)[1]),
                Without(whole, IsoSeq(FlopIsos)[1])} : shift \in 0..(NLabels - 1)}

\* the metric tables queried: a row per key, or the row of key 1 missing
MetricTables ==
    {s \in Stores : /\ \A k \in DOMAIN s : k # 0 => s[k] = <<MaxDist, 1>>
                    /\ MetricKeys \ {1} \subseteq DOMAIN s}

QInit ==
    /\ qEncoder \in EncoderTables
    /\ qMetric \in MetricTables
    /\ qCall = NoQuery
    /\ qRet = NoAnswer
    /\ EmdIdle /\ LkIdle /\ TrIdle /\ LyIdle

QueryEncoder ==
    \E op \in {"lookup", "encode", "abstraction"}, o \in QueryObs :
        /\ qCall.op = "none"
        /\ qCall' = [op |-> op, obs |-> o, a |-> <<0, 0>>]
        /\ qRet' = encoder_query(op, qEncoder, o)
        /\ UNCHANGED <<qEncoder, qMetric, emdVars, trVars, lkVars, lyVars>>

QueryAbsDistance ==
    \E x, y \in QueryAbs :
        /\ qCall.op = "none"
        /\ qCall' = [op |-> "abs_distance", obs |-> NoQuery.obs, a |-> <<x, y>>]
        /\ qRet' = abs_distance(qMetric, x, y)
        /\ UNCHANGED <<qEncoder, qMetric, emdVars, trVars, lkVars, lyVars>>

\* the query is over: the tables are as they were
QueryReturn ==
    /\ qCall.op # "none"
    /\ qCall' = NoQuery
    /\ qRet' = NoAnswer
    /\ UNCHANGED <<qEncoder, qMetric, emdVars, trVars, lkVars, lyVars>>

QNext == QueryEncoder \/ QueryAbsDistance \/ QueryReturn

SpecQuery == QInit /\ [][QNext]_vars

\* C8: Encoding is invariant under canonicalization.  For every observation
\* o with a stored entry, Lookup::lookup(o), API::encode(o) and
\* Encoding::abstraction(o) answer with the entry stored under
\* Isomorphism::from(o), and every suit relabeling of o gets the same answer.
C8_EncodingCanonical ==
    (/\ qCall.op \in {"lookup", "encode", "abstraction"}
     /\ Isomorphism(qCall.obs) \in DOMAIN qEncoder)
    => /\ qRet.ok
       /\ qRet.abs = qEncoder[Isomorphism(qCall.obs)]
       /\ \A o \in Orbit(qCall.obs) :
            LET r == encoder_query(qCall.op, qEncoder, o)
            IN  r.ok /\ r.abs = qRet.abs

\* a Flop observation that is not its own canonical form was looked up and
\* got the label stored under its isomorphism
C8_Witness ==
    /\ qCall.op = "lookup"
    /\ ObsStreet(qCall.obs) = Flop
    /\ ~is_canonical(qCall.obs)
    /\ Isomorphism(qCall.obs) \in DOMAIN qEncoder
    /\ qRet.ok
    /\ index(qRet.abs) = 1

\* C9: API::abs_distance(a, b) returns an error whenever the streets of a
\* and b differ, and has issued no query to the metric table by then.
C9_StreetMismatchIsError ==
    (/\ qCall.op = "abs_distance"
     /\ street(qCall.a[1]) # street(qCall.a[2]))
    => /\ ~qRet.ok
       /\ qRet.queries = <<>>

\* two abstractions of different streets and of different indices were
\* compared on a table holding every key, and the call failed without a query
C9_Witness ==
    /\ qCall.op = "abs_distance"
    /\ street(qCall.a[1]) = Flop /\ street(qCall.a[2]) = Turn
    /\ index(qCall.a[1]) # index(qCall.a[2])
    /\ DOMAIN qMetric = MetricKeys
    /\ ~qRet.ok
    /\ qRet.queries = <<>>

(***************************************************************************)
(* Layer (layer.rs).  The points of a layer are held in the order of their *)
(* isomorphisms: point i is the i-th key of Layer.points.                  *)
(***************************************************************************)
KMEANS_FLOP_CLUSTER_COUNT == 2
KMEANS_TURN_CLUSTER_COUNT == 2
KMEANS_FLOP_TRAINING_ITERATIONS == 2
KMEANS_TURN_TRAINING_ITERATIONS == 1

next(s) == s + 1
prev(s) == s - 1

\* Layer::k (layer.rs 285-292)
k(s) ==
    CASE s = Pref -> 0
      [] s = Flop -> KMEANS_FLOP_CLUSTER_COUNT
      [] s = Turn -> KMEANS_TURN_CLUSTER_COUNT

\* Layer::t (layer.rs 297-304)
t(s) ==
    CASE s = Pref -> 0
      [] s = Flop -> KMEANS_FLOP_TRAINING_ITERATIONS
      [] s = Turn -> KMEANS_TURN_TRAINING_ITERATIONS

\* Histogram::absorb: the weights add up
absorb(h, g) ==
    [a \in (DOMAIN h) \cup (DOMAIN g) |->
        (IF a \in DOMAIN h THEN h[a] ELSE 0) + (IF a \in DOMAIN g THEN g[a] ELSE 0)]

\* AbstractionSpace: expand, clear, absorb, orphans
expand(kmeans, label, sample) ==
    [a \in (DOMAIN kmeans) \cup {label} |-> IF a = label THEN sample ELSE kmeans[a]]
clear(kmeans) == [a \in DOMAIN kmeans |-> NoHist]
space_absorb(kmeans, a, h) == [kmeans EXCEPT ![a] = absorb(@, h)]
orphans_none(kmeans) == {}

orphans(kmeans) == {a \in DOMAIN kmeans : domain(kmeans[a]) = {}}

Neighbor(ok, abs, dist) == [ok |-> ok, abs |-> abs, dist |-> dist]

\* the EMD from histogram to every centroid, as the set of (abs, emd)
nearest_emds(store, kmeans, histogram) ==
    {<<a, emd(store, histogram, kmeans[a])>> : a \in DOMAIN kmeans}

Nearest_last(ds) ==
    IF ds = {} \/ \E d \in ds : ~d[2].ok THEN Neighbor(FALSE, 0, Zero)
    ELSE LET min == CHOOSE d \in ds : \A e \in ds :
                        /\ ~RLess(e[2].val, d[2].val)
                        /\ e[1] > d[1] => RLess(d[2].val, e[2].val)
         IN  Neighbor(TRUE, min[1], min[2].val)

\* min_by (layer.rs 273): the first of the least, in key order
Nearest(ds) ==
    IF ds = {} \/ \E d \in ds : ~d[2].ok THEN Neighbor(FALSE, 0, Zero)
    ELSE LET min == CHOOSE d \in ds : \A e \in ds :
                        /\ ~RLess(e[2].val, d[2].val)
                        /\ e[1] < d[1] => RLess(d[2].val, e[2].val)
         IN  Neighbor(TRUE, min[1], min[2].val)

\* Layer::nearest (layer.rs 267-276)
nearest(store, kmeans, histogram) ==
    CHOOSE n \in {Nearest(ds) : ds \in {nearest_emds(store, kmeans, histogram)}} : TRUE

RECURSIVE neighbors_from(_, _, _, _)
neighbors_from(store, kmeans, points, i) ==
    IF i > Len(points) THEN <<>>
    ELSE <<nearest(store, kmeans, points[i])>> \o neighbors_from(store, kmeans, points, i + 1)

\* Layer::get_neighbor (layer.rs 200-206)
get_neighbor(store, kmeans, points) == neighbors_from(store, kmeans, points, 1)

absorb_none(kmeans, points, neighbors, i) == kmeans

\* the loop of Layer::set_neighbor (layer.rs 213-217) on the centroids
RECURSIVE absorb_all(_, _, _, _)
absorb_all(kmeans, points, neighbors, i) ==
    IF i > Len(points) \/ i > Len(neighbors) THEN kmeans
    ELSE absorb_all(space_absorb(kmeans, neighbors[i].abs, points[i]),
                    points, neighbors, i + 1)

assign_all_reversed(encoder, points, neighbors) ==
    LET n == IF Len(points) < Len(neighbors) THEN Len(points) ELSE Len(neighbors)
    IN  [i \in (DOMAIN encoder) \cup (1..n) |->
            IF i <= n THEN neighbors[n + 1 - i].abs ELSE encoder[i]]

\* and on the encoder: Encoder::assign
assign_all(encoder, points, neighbors) ==
    LET n == IF Len(points) < Len(neighbors) THEN Len(points) ELSE Len(neighbors)
    IN  [i \in (DOMAIN encoder) \cup (1..n) |->
            IF i <= n THEN neighbors[i].abs ELSE encoder[i]]

outliers_any(neighbors) == 1..Len(neighbors)

\* the indices WeightedIndex can draw in Layer::sample_outlier
\* (layer.rs 247-264): those of a weight above 0
outliers(neighbors) ==
    {i \in 1..Len(neighbors) : RLess(Zero, RMul(neighbors[i].dist, neighbors[i].dist))}

\* Layer::inner_street (layer.rs 96-103)
inner_street(s) == prev(s)

inner_entry_oneway(kmeans, store, a, b) == emd(store, kmeans[a], kmeans[b])

\* the body of the loop of Layer::inner_metric (layer.rs 121-126)
inner_entry(kmeans, store, a, b) ==
    LET x == kmeans[a]
        y == kmeans[b]
        xy == emd(store, x, y)
        yx == emd(store, y, x)
    IN  [ok |-> xy.ok /\ yx.ok, val |-> RHalf(RAdd(xy.val, yx.val))]

\* Layer::inner_metric (layer.rs 111-131): a key holds what was inserted last
inner_metric(kmeans, store) ==
    LET pairs == {p \in (DOMAIN kmeans) \X (DOMAIN kmeans) : p[1] > p[2]}
        last(key) == CHOOSE p \in pairs :
                        /\ Pair(p[1], p[2]) = key
                        /\ \A q \in pairs : Pair(q[1], q[2]) = key =>
                              \/ q[1] < p[1]
                              \/ q[1] = p[1] /\ q[2] <= p[2]
    IN  [ok |-> \A p \in pairs : inner_entry(kmeans, store, p[1], p[2]).ok,
         store |-> [key \in {Pair(p[1], p[2]) : p \in pairs} |->
                        inner_entry(kmeans, store, last(key)[1], last(key)[2]).val]]

(***************************************************************************)
(* SpecLayer: Layer::cluster on a layer whose street, metric and points    *)
(* Layer::inner has set.                                                   *)
(***************************************************************************)
NPoints == 3
Children == 2

OuterAbs(s) == {Abstraction(next(s), i) : i \in 0..(NAbs - 1)}
LayerLabels(s) == {Abstraction(s, i) : i \in 0..(NLabels - 1)}

\* the histograms a projection gives: Children children over the outer labels
PointHists(s) ==
    {h \in UNION {[D -> 1..Children] : D \in SUBSET OuterAbs(s)} : norm(h) = Children}

\* the metric carried over from the outer layer, with and without key 0
LayerMetric ==
    [key \in MetricKeys |-> IF key = 0 THEN Zero
                            ELSE IF key < MaxDist THEN <<key, 1>> ELSE <<MaxDist, 1>>]
LayerMetrics == {LayerMetric, [key \in MetricKeys \ {0} |-> LayerMetric[key]]}

Artifact(what, s) == [what |-> what, street |-> s]

LyInit ==
    /\ lyStreet \in {Pref, Flop, Turn}
    /\ lyMetric \in LayerMetrics
    /\ lyPoints \in UNION {[1..n -> PointHists(lyStreet)] : n \in {0, NPoints}}
    /\ lyKmeans = NoHist
    /\ lyLookup = NoHist
    /\ lyNeighbors = <<>>
    /\ lySnapshot = NoHist
    /\ lyIter = 0
    /\ lySaved = <<>>
    /\ lyInner = NoLayer
    /\ lyPc = "cluster"
    /\ EmdIdle /\ LkIdle /\ TrIdle /\ QIdle

after_seed_late(kmeans) ==
    IF Cardinality(DOMAIN kmeans) <= k(lyStreet) THEN "sample_outlier"
    ELSE IF 0 < t(lyStreet) THEN "get_neighbor" ELSE "persist"

after_seed_early(kmeans) ==
    IF 0 < t(lyStreet) THEN "get_neighbor" ELSE "persist"

\* where Layer::cluster goes once the centroids are kmeans
after_seed(kmeans) ==
    IF Cardinality(DOMAIN kmeans) < k(lyStreet) THEN "sample_outlier"
    ELSE IF 0 < t(lyStreet) THEN "get_neighbor" ELSE "persist"

\* cluster (layer.rs 84): the carried metric is saved under street.next()
SaveOuterMetric ==
    /\ lyPc = "cluster"
    /\ lySaved' = Append(lySaved, Artifact("metric", next(lyStreet)))
    /\ lyPc' = "kmeans_initial"
    /\ UNCHANGED <<lyStreet, lyMetric, lyPoints, lyKmeans, lyLookup, lyNeighbors,
                   lySnapshot, lyIter, lyInner, emdVars, trVars, lkVars, qVars>>

SeedUniformOrSkip ==
    /\ lyPc = "kmeans_initial"
    /\ \/ /\ Len(lyPoints) = 0
          /\ lyPc' = after_seed(lyKmeans)
          /\ UNCHANGED lyKmeans
       \/ \E i \in 1..Len(lyPoints), label \in LayerLabels(lyStreet) \ DOMAIN lyKmeans :
            /\ lyKmeans' = expand(lyKmeans, label, lyPoints[i])
            /\ lyPc' = after_seed(lyKmeans')
    /\ UNCHANGED <<lyStreet, lyMetric, lyPoints, lyLookup, lyNeighbors,
                   lySnapshot, lyIter, lySaved, lyInner, emdVars, trVars, lkVars, qVars>>

\* kmeans_initial (layer.rs 169-170): sample_uniform panics on no points
SeedUniform ==
    /\ lyPc = "kmeans_initial"
    /\ \/ /\ Len(lyPoints) = 0
          /\ lyPc' = "panic"
          /\ UNCHANGED lyKmeans
       \/ \E i \in 1..Len(lyPoints), label \in LayerLabels(lyStreet) \ DOMAIN lyKmeans :
            /\ lyKmeans' = expand(lyKmeans, label, lyPoints[i])
            /\ lyPc' = after_seed(lyKmeans')
    /\ UNCHANGED <<lyStreet, lyMetric, lyPoints, lyLookup, lyNeighbors,
                   lySnapshot, lyIter, lySaved, lyInner, emdVars, trVars, lkVars, qVars>>

\* kmeans_initial (layer.rs 172-176): one turn of the loop
SeedOutlier ==
    /\ lyPc = "sample_outlier"
    /\ \E near \in {get_neighbor(lyMetric, lyKmeans, lyPoints)} :
           IF (\E i \in 1..Len(near) : ~near[i].ok) \/ outliers(near) = {}
           THEN lyPc' = "panic" /\ UNCHANGED lyKmeans
           ELSE \E i \in outliers(near), label \in LayerLabels(lyStreet) \ DOMAIN lyKmeans :
                    /\ lyKmeans' = expand(lyKmeans, label, lyPoints[i])
                    /\ lyPc' = after_seed(lyKmeans')
    /\ UNCHANGED <<lyStreet, lyMetric, lyPoints, lyLookup, lyNeighbors,
                   lySnapshot, lyIter, lySaved, lyInner, emdVars, trVars, lkVars, qVars>>

\* a slot of the vector of get_neighbor that no worker has written yet
Pending == Neighbor(TRUE, 0 - 1, Zero)

get_neighbor_absorbing(kmeans, neighbor, histogram) ==
    IF neighbor.ok THEN space_absorb(kmeans, neighbor.abs, histogram) ELSE kmeans

\* the centroids after a worker of get_neighbor has handled one point:
\* get_neighbor borrows &self (layer.rs 200), the workers only read
get_neighbor_kmeans(kmeans, neighbor, histogram) == kmeans

\* kmeans_cluster (layer.rs 190): get_neighbor is entered
GetNeighbor ==
    /\ lyPc = "get_neighbor"
    /\ lyNeighbors' = [i \in 1..Len(lyPoints) |-> Pending]
    /\ lySnapshot' = lyKmeans
    /\ lyPc' = "nearest"
    /\ UNCHANGED <<lyStreet, lyMetric, lyPoints, lyKmeans, lyLookup,
                   lyIter, lySaved, lyInner, emdVars, trVars, lkVars, qVars>>

\* get_neighbor (layer.rs 201-204): a worker of par_iter maps one point,
\* in whatever order the pool takes them
NearestPoint ==
    /\ lyPc = "nearest"
    /\ \E i \in 1..Len(lyPoints) :
        /\ lyNeighbors[i] = Pending
        /\ \E n \in {nearest(lyMetric, lyKmeans, lyPoints[i])} :
            /\ lyNeighbors' = [lyNeighbors EXCEPT ![i] = n]
            /\ lyKmeans' = get_neighbor_kmeans(lyKmeans, n, lyPoints[i])
    /\ UNCHANGED <<lyStreet, lyMetric, lyPoints, lyLookup, lySnapshot, lyPc,
                   lyIter, lySaved, lyInner, emdVars, trVars, lkVars, qVars>>

\* get_neighbor (layer.rs 205): the vector is collected, or a worker panicked
CollectNeighbors ==
    /\ lyPc = "nearest"
    /\ \A i \in 1..Len(lyPoints) : lyNeighbors[i] # Pending
    /\ lyPc' = IF \E i \in 1..Len(lyNeighbors) : ~lyNeighbors[i].ok
               THEN "panic" ELSE "set_neighbor"
    /\ UNCHANGED <<lyStreet, lyMetric, lyPoints, lyKmeans, lyLookup, lyNeighbors,
                   lySnapshot, lyIter, lySaved, lyInner, emdVars, trVars, lkVars, qVars>>

kmeans_continue_while_loss(iter, neighbors) ==
    /\ iter < t(lyStreet)
    /\ \E i \in 1..Len(neighbors) : neighbors[i].dist[1] # 0

\* kmeans_cluster (layer.rs 189): for _ in 0..Self::t(self.street), whatever
\* the distances of the iteration were
kmeans_continue(iter, neighbors) == iter < t(lyStreet)

\* Layer::set_neighbor (layer.rs 210-219)
SetNeighbor ==
    /\ lyPc = "set_neighbor"
    /\ lyKmeans' = absorb_all(clear(lyKmeans), lyPoints, lyNeighbors, 1)
    /\ lyLookup' = assign_all(lyLookup, lyPoints, lyNeighbors)
    /\ lyPc' = "set_orphaned"
    /\ UNCHANGED <<lyStreet, lyMetric, lyPoints, lyNeighbors, lySnapshot,
                   lyIter, lySaved, lyInner, emdVars, trVars, lkVars, qVars>>

\* Layer::set_orphaned (layer.rs 222-233), and the end of the iteration
SetOrphaned ==
    /\ lyPc = "set_orphaned"
    /\ \E f \in [orphans(lyKmeans) -> 1..Len(lyPoints)] :
            lyKmeans' = [a \in DOMAIN lyKmeans |->
                            IF a \in orphans(lyKmeans)
                            THEN absorb(lyKmeans[a], lyPoints[f[a]])
                            ELSE lyKmeans[a]]
    /\ lyIter' = lyIter + 1
    /\ lyPc' = IF kmeans_continue(lyIter', lyNeighbors) THEN "get_neighbor" ELSE "persist"
    /\ UNCHANGED <<lyStreet, lyMetric, lyPoints, lyLookup, lyNeighbors,
                   lySnapshot, lySaved, lyInner, emdVars, trVars, lkVars, qVars>>

PersistEncoder ==
    /\ lyPc = "persist"
    /\ lySaved' = Append(lySaved, Artifact("encoder", lyStreet))
    /\ lyPc' = "done"
    /\ UNCHANGED <<lyStreet, lyMetric, lyPoints, lyKmeans, lyLookup, lyNeighbors,
                   lySnapshot, lyIter, lyInner, emdVars, trVars, lkVars, qVars>>

\* cluster (layer.rs 87-92)
Persist ==
    /\ lyPc = "persist"
    /\ IF lyStreet = Pref
       THEN LET inner == inner_metric(lyKmeans, lyMetric)
            IN  IF inner.ok
                THEN /\ lyMetric' = inner.store
                     /\ lySaved' = Append(lySaved, Artifact("metric", lyStreet))
                     /\ lyPc' = "done"
                ELSE /\ lyPc' = "panic"
                     /\ UNCHANGED <<lyMetric, lySaved>>
       ELSE /\ lySaved' = Append(lySaved, Artifact("encoder", lyStreet))
            /\ lyPc' = "done"
            /\ UNCHANGED lyMetric
    /\ UNCHANGED <<lyStreet, lyPoints, lyKmeans, lyLookup, lyNeighbors,
                   lySnapshot, lyIter, lyInner, emdVars, trVars, lkVars, qVars>>

LyNext ==
    \/ SaveOuterMetric
    \/ SeedUniform
    \/ SeedOutlier
    \/ GetNeighbor
    \/ NearestPoint
    \/ CollectNeighbors
    \/ SetNeighbor
    \/ SetOrphaned
    \/ Persist

SpecLayer == LyInit /\ [][LyNext]_vars

\* kmeans_cluster runs on: the thread takes the next statement of the
\* loop, and the pool of par_iter maps every point left
SpecLayerLive ==
    /\ SpecLayer
    /\ WF_vars(GetNeighbor) /\ WF_vars(NearestPoint) /\ WF_vars(CollectNeighbors)
    /\ WF_vars(SetNeighbor) /\ WF_vars(SetOrphaned)

\* the EMD from point i to the centroid c of the centroids kmeans
point_emd(i, kmeans, c) == emd(lyMetric, lyPoints[i], kmeans[c]).val

\* C6: after k-means finishes (all T iterations of get_neighbor,
\* set_neighbor, set_orphaned), the centroid recorded in the encoder for
\* every point is the argmin of EMD(point, centroid) over all centroids as
\* they stand at the end of the run.
C6_AssignedIsFinalArgmin ==
    (lyPc = "done" /\ lyIter >= 1) =>
        /\ DOMAIN lyLookup = 1..Len(lyPoints)
        /\ \A i \in 1..Len(lyPoints) :
            /\ lyLookup[i] \in DOMAIN lyKmeans
            /\ \A c \in DOMAIN lyKmeans :
                ~RLess(point_emd(i, lyKmeans, c), point_emd(i, lyKmeans, lyLookup[i]))

\* the iterations are over, both centroids hold points, the last update
\* moved the centroids, and some point is strictly nearer to its own
\* centroid than to the other
C6_Witness ==
    /\ lyPc = "done"
    /\ lyIter = t(lyStreet)
    /\ Cardinality(DOMAIN lyKmeans) = 2
    /\ {lyLookup[i] : i \in DOMAIN lyLookup} = DOMAIN lyKmeans
    /\ lyKmeans # lySnapshot
    /\ \E i \in 1..Len(lyPoints) : \E c \in DOMAIN lyKmeans :
            RLess(point_emd(i, lyKmeans, lyLookup[i]), point_emd(i, lyKmeans, c))

\* C15: in every Lloyd iteration get_neighbor computes the nearest centroid
\* of all points against one unchanged centroid set: from its start until
\* its vector is collected no centroid histogram, centroid key or encoder
\* entry changes, and every entry of the vector is the nearest centroid of
\* its point among the centroids as they were at the start.
C15_AssignmentReadsSnapshot ==
    /\ [](lyPc \in {"nearest", "set_neighbor"} =>
            /\ lyKmeans = lySnapshot
            /\ \A i \in 1..Len(lyPoints) :
                    lyNeighbors[i] # Pending =>
                        lyNeighbors[i] = nearest(lyMetric, lySnapshot, lyPoints[i]))
    /\ [][(lyPc \in {"get_neighbor", "nearest"}) => (lyKmeans' = lyKmeans /\ lyLookup' = lyLookup)]_vars

\* the second iteration is under way: the centroids were rewritten by the
\* first, one worker has delivered a centroid and another has not yet
C15_Witness ==
    /\ lyPc = "nearest"
    /\ lyIter = 1
    /\ lyKmeans = lySnapshot
    /\ DOMAIN lyLookup = 1..Len(lyPoints)
    /\ \E i, j \in 1..Len(lyPoints) :
          /\ lyNeighbors[i] # Pending /\ lyNeighbors[i].ok
          /\ lyNeighbors[i].abs # lyLookup[i]
          /\ lyNeighbors[j] = Pending

\* the centroids no point of the vector of get_neighbor was given to
unassigned ==
    {a \in DOMAIN lyKmeans : \A i \in 1..Len(lyNeighbors) : lyNeighbors[i].abs # a}

\* C17: at the end of every Lloyd iteration, after set_orphaned, no centroid
\* has an empty histogram: every centroid that received no point in
\* set_neighbor holds one histogram of the point set, and the centroid
\* identities are those the iteration started with.
C17_NoOrphanAfterIteration ==
    (lyIter >= 1 /\ lyPc \in {"get_neighbor", "persist"}) =>
        /\ \A a \in DOMAIN lyKmeans : domain(lyKmeans[a]) # {}
        /\ \A a \in unassigned : \E i \in 1..Len(lyPoints) : lyKmeans[a] = lyPoints[i]
        /\ DOMAIN lyKmeans = DOMAIN lySnapshot

\* an iteration has ended in which a centroid received no point
C17_Witness ==
    /\ lyIter >= 1
    /\ lyPc \in {"get_neighbor", "persist"}
    /\ unassigned # {}
    /\ Cardinality(DOMAIN lyKmeans) = k(lyStreet)
    /\ \A a \in DOMAIN lyKmeans : domain(lyKmeans[a]) # {}

\* the artifacts a run of cluster() has saved, whatever their order
saved == {lySaved[i] : i \in 1..Len(lySaved)}

\* C18 (as stated): every run of Layer::cluster() on a street S (Turn, Flop
\* or Preflop) persists both the metric under S.next() and the encoder
\* under S.
C18_PersistsMetricAndEncoder ==
    lyPc = "done" =>
        /\ [what |-> "metric", street |-> lyStreet + 1] \in saved
        /\ [what |-> "encoder", street |-> lyStreet] \in saved

\* C18 (amended): every run of Layer::cluster() first persists the carried
\* metric under S.next(). A run on Turn or Flop that returns has then
\* persisted the encoder under S, and nothing else; a run on Preflop that
\* returns has persisted the metric computed for Preflop under Preflop, and
\* no encoder. A run that panics has persisted the carried metric only.
C18_PersistsByStreet ==
    /\ lyPc # "cluster" =>
            (Len(lySaved) >= 1 /\ lySaved[1] = [what |-> "metric", street |-> lyStreet + 1])
    /\ lyPc \notin {"cluster", "done"} => Len(lySaved) = 1
    /\ lyPc = "done" =>
            /\ Len(lySaved) = 2
            /\ lySaved[2] = [what |-> IF lyStreet = Pref THEN "metric" ELSE "encoder",
                             street |-> lyStreet]

\* a run on Preflop has returned: two metrics are saved and no encoder
C18_Witness ==
    /\ lyPc = "done"
    /\ lyStreet = Pref
    /\ lySaved = <<[what |-> "metric", street |-> Flop], [what |-> "metric", street |-> Pref]>>
    /\ \A a \in saved : a.what # "encoder"

\* the places of a Lloyd iteration in kmeans_cluster
LloydPcs == {"get_neighbor", "nearest", "set_neighbor", "set_orphaned"}

\* C19: in Layer::cluster() the events are strictly ordered: the carried
\* metric is saved under S.next() before any centroid is seeded; the seeding
\* is complete before the first Lloyd iteration; and on Preflop the Preflop
\* metric is computed from the final centroids and saved only after the
\* last Lloyd iteration.
C19_ClusterOrder ==
    /\ [](DOMAIN lyKmeans # {} =>
            (Len(lySaved) >= 1 /\ lySaved[1] = [what |-> "metric", street |-> lyStreet + 1]))
    /\ [](lyPc \in {"cluster", "kmeans_initial", "sample_outlier"} =>
            (lyIter = 0 /\ lyNeighbors = <<>> /\ lyLookup = NoHist))
    /\ [](lyPc \in LloydPcs => Cardinality(DOMAIN lyKmeans) = k(lyStreet))
    /\ []([what |-> "metric", street |-> lyStreet] \in saved =>
            (lyStreet = Pref /\ lyPc = "done" /\ lyIter = t(lyStreet)))
    /\ [][(lyPc \in LloydPcs \cup {"persist", "done"}) => (DOMAIN lyKmeans' = DOMAIN lyKmeans)]_vars
    /\ [][(lyPc = "persist" /\ lyStreet = Pref /\ lySaved' # lySaved) => (lyKmeans' = lyKmeans /\ lyMetric' = inner_metric(lyKmeans, lyMetric).store)]_vars

\* a run on Flop has returned after seeding all its centroids and running
\* all its iterations
C19_Witness ==
    /\ lyPc = "done"
    /\ lyStreet = Flop
    /\ Cardinality(DOMAIN lyKmeans) = KMEANS_FLOP_CLUSTER_COUNT
    /\ lyIter = KMEANS_FLOP_TRAINING_ITERATIONS
    /\ Len(lySaved) = 2
    /\ lyLookup # NoHist

\* C20: kmeans_cluster performs exactly t(street) Lloyd iterations, each
\* of them get_neighbor, then set_neighbor, then set_orphaned, and then
\* returns; neither the loss nor an unchanged assignment ends the loop
\* early or extends it.
C20_ExactIterationBudget ==
    /\ [](lyPc \in LloydPcs => lyIter < t(lyStreet))
    /\ [](lyPc \in {"persist", "done"} => lyIter = t(lyStreet))
    /\ [](lyPc = "panic" => (lyIter = 0 /\ lyNeighbors = <<>>))
    /\ [][(lyPc = "get_neighbor") => (lyPc' = "nearest" /\ lyIter' = lyIter)]_vars
    /\ [][(lyPc = "nearest") => (lyPc' \in {"nearest", "set_neighbor"} /\ lyIter' = lyIter)]_vars
    /\ [][(lyPc = "set_neighbor") => (lyPc' = "set_orphaned" /\ lyIter' = lyIter)]_vars
    /\ [][(lyPc = "set_orphaned") => (lyIter' = lyIter + 1 /\ lyPc' = (IF lyIter' = t(lyStreet) THEN "persist" ELSE "get_neighbor"))]_vars
    /\ [][(lyPc \notin LloydPcs) => (lyIter' = lyIter)]_vars
    /\ (lyPc \in LloydPcs) ~> (lyPc = "persist")

\* the first iteration on Flop ended with every point at distance 0 of its
\* centroid, a loss of 0, and the second iteration is about to start
C20_Witness ==
    /\ lyStreet = Flop
    /\ lyPc = "get_neighbor"
    /\ lyIter = 1
    /\ lyIter < KMEANS_FLOP_TRAINING_ITERATIONS
    /\ Len(lyNeighbors) = NPoints
    /\ \A i \in 1..Len(lyNeighbors) : lyNeighbors[i].dist[1] = 0

\* C21: when two or more centroids are at the same least EMD from a point,
\* Layer::nearest returns the one of the smallest identity, so that the
\* centroid of a point is a function of the point and of the centroids.
C21_TieGoesToSmallestIdentity ==
    lyPc \in {"nearest", "set_neighbor"} =>
        \A i \in 1..Len(lyPoints) :
            (lyNeighbors[i] # Pending /\ lyNeighbors[i].ok) =>
                /\ lyNeighbors[i].abs \in DOMAIN lySnapshot
                /\ lyNeighbors[i].dist = point_emd(i, lySnapshot, lyNeighbors[i].abs)
                /\ \A c \in DOMAIN lySnapshot :
                    /\ ~RLess(point_emd(i, lySnapshot, c), lyNeighbors[i].dist)
                    /\ point_emd(i, lySnapshot, c) = lyNeighbors[i].dist => lyNeighbors[i].abs <= c
                /\ \A j \in 1..Len(lyPoints) :
                    (lyNeighbors[j] # Pending /\ lyPoints[j] = lyPoints[i]) =>
                        lyNeighbors[j] = lyNeighbors[i]

\* a point has two centroids at the same least EMD, of different histograms,
\* and was given the one of the smaller identity
C21_Witness ==
    /\ lyPc = "set_neighbor"
    /\ \E i \in 1..Len(lyPoints) : \E c \in DOMAIN lySnapshot :
          /\ lyNeighbors[i].ok
          /\ lyNeighbors[i].abs < c
          /\ lySnapshot[c] # lySnapshot[lyNeighbors[i].abs]
          /\ point_emd(i, lySnapshot, c) = lyNeighbors[i].dist

\* C24: seeding on an empty point space fails fatally: with no points,
\* kmeans_initial aborts in sample_uniform before any centroid is added, and
\* no encoder of the street is saved.
C24_NoPointsIsFatal ==
    Len(lyPoints) = 0 =>
        /\ lyPc \in {"cluster", "kmeans_initial", "panic"}
        /\ DOMAIN lyKmeans = {}
        /\ lyLookup = NoHist
        /\ \A a \in saved : a.what # "encoder"
        /\ lyMetric \in LayerMetrics

\* a run without points has aborted, with the carried metric saved and
\* nothing else
C24_Witness ==
    /\ Len(lyPoints) = 0
    /\ lyPc = "panic"
    /\ DOMAIN lyKmeans = {}
    /\ lySaved = <<[what |-> "metric", street |-> lyStreet + 1]>>

\* C25: when kmeans_initial returns, the number of centroids is exactly
\* max(k(street), 1): the first centroid is added before the count is
\* compared with k, so Preflop (k = 0) ends with one centroid, and for
\* k >= 1 the loop stops as soon as the count reaches k and never exceeds it.
C25_SeededCount ==
    /\ lyPc \in LloydPcs \cup {"persist", "done"} =>
            Cardinality(DOMAIN lyKmeans) = (IF lyStreet = Pref THEN 1
                                            ELSE IF lyStreet = Flop THEN KMEANS_FLOP_CLUSTER_COUNT
                                            ELSE KMEANS_TURN_CLUSTER_COUNT)
    /\ lyPc = "sample_outlier" =>
            /\ Cardinality(DOMAIN lyKmeans) >= 1
            /\ Cardinality(DOMAIN lyKmeans) < k(lyStreet)
    /\ lyPc \in {"cluster", "kmeans_initial"} => DOMAIN lyKmeans = {}

\* the seeding of Preflop has returned with one centroid
C25_Witness ==
    /\ lyStreet = Pref
    /\ lyPc = "persist"
    /\ k(lyStreet) = 0
    /\ Cardinality(DOMAIN lyKmeans) = 1

\* layer.rs 201-204: the centroid get_neighbor computes for the i-th point,
\* the nearest of those it read, the first of several
own_centroid(i) ==
    CHOOSE c \in DOMAIN lySnapshot : \A e \in DOMAIN lySnapshot :
        \/ RLess(point_emd(i, lySnapshot, c), point_emd(i, lySnapshot, e))
        \/ (point_emd(i, lySnapshot, c) = point_emd(i, lySnapshot, e) /\ c <= e)

\* C26: in set_neighbor the (centroid, distance) pair applied to the i-th
\* point in isomorphism order is the pair get_neighbor computed for that
\* point: the parallel collection keeps the order of the points, so no point
\* is written to the encoder or absorbed into a centroid other than its own
\* nearest centroid.
C26_PairsKeepPointOrder ==
    lyPc = "set_orphaned" =>
        \A own \in {[i \in 1..Len(lyPoints) |-> own_centroid(i)]} :
            /\ \A i \in 1..Len(lyPoints) :
                /\ lyNeighbors[i].abs = own[i]
                /\ lyNeighbors[i].dist = point_emd(i, lySnapshot, own[i])
                /\ lyLookup[i] = own[i]
            /\ \A c \in DOMAIN lyKmeans : \A x \in OuterAbs(lyStreet) :
                (IF x \in DOMAIN lyKmeans[c] THEN lyKmeans[c][x] ELSE 0) =
                    SumOver([i \in 1..Len(lyPoints) |->
                                IF x \in DOMAIN lyPoints[i] THEN lyPoints[i][x] ELSE 0],
                            {i \in 1..Len(lyPoints) : own[i] = c})

\* set_neighbor has run on points of which the first and the last have
\* different centroids and different histograms
C26_Witness ==
    /\ lyPc = "set_orphaned"
    /\ Len(lyPoints) = NPoints
    /\ own_centroid(1) # own_centroid(NPoints)
    /\ lyPoints[1] # lyPoints[NPoints]
    /\ lyLookup[1] = own_centroid(1)
    /\ lyLookup[NPoints] = own_centroid(NPoints)

\* the least EMD from the histogram h to the centroids, 0 or above 0
at_distance_zero(h) ==
    \E c \in DOMAIN lyKmeans : emd(lyMetric, h, lyKmeans[c]).val = Zero

\* C27: during the seeding sample_outlier never returns a point whose least
\* EMD to the centroids is 0 (its weight is 0), and when every point is at
\* distance 0 of some centroid the seeding aborts: it neither returns a
\* point nor loops.
C27_OutlierHasWeight ==
    /\ [][(lyPc = "sample_outlier") => (\A a \in (DOMAIN lyKmeans') \ (DOMAIN lyKmeans) : ~at_distance_zero(lyKmeans'[a]) /\ \E i \in 1..Len(lyPoints) : lyPoints[i] = lyKmeans'[a])]_vars
    /\ [][(lyPc = "sample_outlier" /\ \A i \in 1..Len(lyPoints) : at_distance_zero(lyPoints[i])) => (lyPc' = "panic" /\ lyKmeans' = lyKmeans)]_vars
    /\ [][(lyPc = "sample_outlier") => (lyPc' # "sample_outlier" \/ lyKmeans' # lyKmeans)]_vars

\* the seeding has aborted with one centroid, every point at EMD 0 of it
\* on a metric that holds every key
C27_Witness ==
    /\ lyPc = "panic"
    /\ Len(lyPoints) = NPoints
    /\ lyMetric = LayerMetric
    /\ Cardinality(DOMAIN lyKmeans) = 1
    /\ \A i \in 1..Len(lyPoints) : \A c \in DOMAIN lyKmeans :
          emd(lyMetric, lyPoints[i], lyKmeans[c]) = Ok(Zero)
    /\ \E i \in 1..Len(lyPoints) : \A c \in DOMAIN lyKmeans : lyPoints[i] # lyKmeans[c]


(***************************************************************************)
(* SpecInner: Layer::inner takes the metric of the inner layer from the    *)
(* centroids of a clustered layer.                                         *)
(***************************************************************************)
NCentroids == 4

\* the centroids of a clustered layer: any labels, each with a histogram
CentroidSpaces(s) ==
    UNION {[L -> PointHists(s)] :
            L \in SUBSET {Abstraction(s, i) : i \in 0..(NCentroids - 1)}}

InInit ==
    /\ lyStreet \in {Flop, Turn}
    /\ lyMetric \in LayerMetrics
    /\ lyKmeans \in CentroidSpaces(lyStreet)
    /\ lyPoints = <<>>
    /\ lyLookup = NoHist
    /\ lyNeighbors = <<>>
    /\ lySnapshot = NoHist
    /\ lyIter = 0
    /\ lySaved = <<>>
    /\ lyInner = NoLayer
    /\ lyPc = "inner"
    /\ EmdIdle /\ LkIdle /\ TrIdle /\ QIdle

\* Layer::inner (layer.rs 70-76): the street and the metric of the new layer
InnerMetric ==
    /\ lyPc = "inner"
    /\ \E m \in {inner_metric(lyKmeans, lyMetric)} :
        /\ lyInner' = [ok |-> m.ok, street |-> inner_street(lyStreet), store |-> m.store]
        /\ lyPc' = IF m.ok THEN "inner_done" ELSE "panic"
    /\ UNCHANGED <<lyStreet, lyMetric, lyPoints, lyKmeans, lyLookup, lyNeighbors,
                   lySnapshot, lyIter, lySaved, emdVars, trVars, lkVars, qVars>>

InNext == InnerMetric

SpecInner == InInit /\ [][InNext]_vars

\* C7: for every pair of distinct centroids a, b of a clustered layer, the
\* metric returned by inner_metric holds under Pair(a, b) the value
\* (emd(a.hist, b.hist) + emd(b.hist, a.hist)) / 2 for that very pair: no
\* entry is missing and none is overwritten by another pair of the same key.
C7_InnerMetricPerPair ==
    lyPc = "inner_done" =>
        \A a, b \in DOMAIN lyKmeans : a # b =>
            /\ Pair(a, b) \in DOMAIN lyInner.store
            /\ lyInner.store[Pair(a, b)] = inner_entry(lyKmeans, lyMetric, a, b).val

(***************************************************************************)
(* The River equity measure (equity.rs).  An equity abstraction is         *)
(* Abstraction::Equity(i8), a bucket of 0..EquityBuckets on the River.     *)
(***************************************************************************)
EquityBuckets == 100

Equity(b) == Abstraction(Rive, b)

\* an integer as an i8
I8(v) == ((v + 128) % 256) - 128

RAbs(p) == IF p[1] < 0 THEN <<0 - p[1], p[2]>> ELSE p

\* the bucket of an equity of pct hundredths
abs_bucket(pct) == Equity((pct * EquityBuckets) \div 100)

\* Equity::distance (equity.rs 20-25): unreachable!() off the River
equity_distance(x, y) ==
    IF street(x) = Rive /\ street(y) = Rive
    THEN Ok(RAbs(<<I8(index(x) - index(y)), 1>>))
    ELSE Panic

\* cdf_x after the turn of bucket b of the loop (equity.rs 57-58): the sum
\* of the weights of the buckets up to b
cdf(h, b) ==
    Rat(SumOver(h, {a \in DOMAIN h : a <= Equity(b)}), norm(h))

variation_signed(x, y, b) == RSub(cdf(x, b), cdf(y, b))

\* what the turn of bucket b adds to total (equity.rs 59)
variation_term(x, y, b) == RAbs(RSub(cdf(x, b), cdf(y, b)))

\* total after the loop over Abstraction::range() (equity.rs 56-60): the
\* terms of the buckets lo..hi, added up
RECURSIVE variation_total(_, _, _, _)
variation_total(x, y, lo, hi) ==
    IF lo = hi THEN variation_term(x, y, lo)
    ELSE RAdd(variation_total(x, y, lo, (lo + hi) \div 2),
              variation_total(x, y, ((lo + hi) \div 2) + 1, hi))

\* Equity::variation (equity.rs 52-62)
variation(x, y) == Ok(RHalf(variation_total(x, y, 0, EquityBuckets)))

\* Equity::cost (equity.rs 43-45)
cost(x, y) == variation(x, y)

(***************************************************************************)
(* SpecEquity: calls of the equity measure under Metric::default().        *)
(***************************************************************************)
EquityAbs == {Equity(b) : b \in 0..EquityBuckets}
EquitySupport == {Equity(0), abs_bucket(10), abs_bucket(90), Equity(EquityBuckets)}
EquityHists ==
    {h \in UNION {[D -> 1..MaxMass] : D \in SUBSET EquitySupport \ {{}}} :
        norm(h) <= MaxMass}

EqInit ==
    /\ mStore = NoStore
    /\ mCall = NoCall
    /\ mRet = Ok(Zero)
    /\ LkIdle /\ TrIdle /\ QIdle /\ LyIdle

CallEquityDistance ==
    \E x, y \in EquityAbs :
        /\ mCall.op = "none"
        /\ mCall' = [op |-> "equity_distance", a |-> <<x, y>>, h |-> <<NoHist, NoHist>>]
        /\ mRet' = equity_distance(x, y)
        /\ UNCHANGED <<mStore, lkVars, qVars, lyVars, trVars>>

CallEquityCost ==
    \E p, q \in EquityHists :
        /\ mCall.op = "none"
        /\ mCall' = [op |-> "equity_cost", a |-> <<0, 0>>, h |-> <<p, q>>]
        /\ mRet' = cost(p, q)
        /\ UNCHANGED <<mStore, lkVars, qVars, lyVars, trVars>>

EqNext == CallEquityDistance \/ CallEquityCost \/ Return

SpecEquity == EqInit /\ [][EqNext]_vars

\* C12: under the River equity metric the distance between the abstraction
\* of the equity 0.9 and that of the equity 0.1 is 0.8: Equity::distance is
\* the absolute difference of the two equities on the scale [0, 1].
C12_EquityDistanceUnitScale ==
    mCall.op = "equity_distance" =>
        /\ mRet = Ok(Rat(RAbs(<<index(mCall.a[1]) - index(mCall.a[2]), 1>>)[1],
                         EquityBuckets))
        /\ (mCall.a = <<abs_bucket(90), abs_bucket(10)>> => mRet = Ok(Rat(8, 10)))

\* C13: the EMD of two equity histograms under the default metric is
\* symmetric: Equity::variation of (h1, h2) equals that of (h2, h1).
C13_VariationSymmetric ==
    mCall.op = "equity_cost" => mRet = cost(mCall.h[2], mCall.h[1])

\* two different histograms of unequal masses at a positive variation
C13_Witness ==
    /\ mCall.op = "equity_cost"
    /\ domain(mCall.h[1]) # domain(mCall.h[2])
    /\ norm(mCall.h[1]) < norm(mCall.h[2])
    /\ mRet.ok /\ RLess(Zero, mRet.val)
    /\ mRet = cost(mCall.h[2], mCall.h[1])

\* the symmetrized EMD of the centroids a and b under the outer metric
symmetrized(a, b) ==
    RHalf(RAdd(emd(lyMetric, lyKmeans[a], lyKmeans[b]).val,
               emd(lyMetric, lyKmeans[b], lyKmeans[a]).val))

EvalLow == 4        \* the low ranks of the deck of the model: Two..Five
EvalRanks == (0..(EvalLow - 1)) \cup {12}
EvalDeck == {r * 4 + s : r \in EvalRanks, s \in 0..3}
MaxHand == 7        \* most cards of a hand

card_rank(c) == c \div 4
card_suit(c) == c % 4

\* Option<T>
NoValue == [kind |-> "none", primary |-> 0, secondary |-> 0]
None == [some |-> FALSE, val |-> NoValue]
Some(v) == [some |-> TRUE, val |-> v]

\* Value::X(primary) and Value::X(primary, secondary)
Value1(kind, primary) == [kind |-> kind, primary |-> primary, secondary |-> 0]
Value2(kind, primary, secondary) == [kind |-> kind, primary |-> primary, secondary |-> secondary]

\* lines 141-176: the four fields of the evaluator
rank_counts(cards) == [r \in 0..12 |-> Cardinality({c \in cards : card_rank(c) = r})]
suit_counts(cards) == [s \in 0..3 |-> Cardinality({c \in cards : card_suit(c) = s})]
u32_hand(cards) == {card_rank(c) : c \in cards}
u32_suit(cards) == [s \in 0..3 |-> {card_rank(c) : c \in {d \in cards : card_suit(d) = s}}]

\* Rank::from(u32): the rank of the highest bit
rank_of_mask(mask) == CHOOSE r \in mask : \A q \in mask : q <= r

\* lines 178-180: the bits of Ace, Five, Four, Three, Two
wheel == {12, 3, 2, 1, 0}
Five == 3

\* lines 114-127: mask &= mask << 1, four times, leaves the top of every
\* five ranks in a row
find_rank_of_straight(u32_cards) ==
    LET mask == {r \in u32_cards : \A d \in 1..4 : (r - d) \in u32_cards}
    IN  IF mask # {} THEN Some(rank_of_mask(mask))
        ELSE IF wheel \subseteq u32_cards THEN Some(Five)
        ELSE None

\* lines 131-139: the highest rank under high that n cards or more have
find_rank_of_n_oak_below(cards, n, high) ==
    LET at == {r \in 0..12 : r < high /\ rank_counts(cards)[r] >= n}
    IN  IF at = {} THEN None ELSE Some(CHOOSE r \in at : \A q \in at : q <= r)

\* lines 128-130
find_rank_of_n_oak(cards, n) == find_rank_of_n_oak_below(cards, n, 13)

\* lines 104-109: the first suit of five cards or more
find_suit_of_flush(cards) ==
    LET at == {s \in 0..3 : suit_counts(cards)[s] >= 5}
    IN  IF at = {} THEN None ELSE Some(CHOOSE s \in at : \A q \in at : s <= q)

\* lines 110-113
find_rank_of_straight_flush(cards, suit) == find_rank_of_straight(u32_suit(cards)[suit])

\* lines 66-72
find_flush(cards) ==
    LET suit == find_suit_of_flush(cards)
    IN  IF ~suit.some THEN None
        ELSE LET rank == find_rank_of_straight_flush(cards, suit.val)
             IN  IF rank.some THEN Some(Value1("StraightFlush", rank.val))
                 ELSE Some(Value1("Flush", rank_of_mask(u32_suit(cards)[suit.val])))

\* lines 73-76
find_5_iar(cards) ==
    LET rank == find_rank_of_straight(u32_hand(cards))
    IN  IF rank.some THEN Some(Value1("Straight", rank.val)) ELSE None

\* lines 77-82
find_3_oak_2_oak(cards) ==
    LET triple == find_rank_of_n_oak(cards, 3)
    IN  IF ~triple.some THEN None
        ELSE LET couple == find_rank_of_n_oak_below(cards, 2, triple.val)
             IN  IF couple.some THEN Some(Value2("FullHouse", triple.val, couple.val))
                 ELSE None

find_2_oak_2_oak_only(cards) ==
    LET high == find_rank_of_n_oak(cards, 2)
    IN  IF ~high.some THEN None
        ELSE LET below == find_rank_of_n_oak_below(cards, 2, high.val)
             IN  IF below.some THEN Some(Value2("TwoPair", high.val, below.val))
                 ELSE None

\* lines 83-89
find_2_oak_2_oak(cards) ==
    LET high == find_rank_of_n_oak(cards, 2)
    IN  IF ~high.some THEN None
        ELSE LET below == find_rank_of_n_oak_below(cards, 2, high.val)
             IN  IF below.some THEN Some(Value2("TwoPair", high.val, below.val))
                 ELSE Some(Value1("OnePair", high.val))

\* lines 90-102
find_n_oak(cards, n, kind) ==
    LET rank == find_rank_of_n_oak(cards, n)
    IN  IF rank.some THEN Some(Value1(kind, rank.val)) ELSE None
find_4_oak(cards) == find_n_oak(cards, 4, "FourOAK")
find_3_oak(cards) == find_n_oak(cards, 3, "ThreeOAK")
find_2_oak(cards) == find_n_oak(cards, 2, "OnePair")
find_1_oak(cards) == find_n_oak(cards, 1, "HighCard")

\* the first Some of the chain, with the step that gave it; unwrap panics
\* when no step did
RECURSIVE or_else(_, _)
or_else(steps, i) ==
    IF i > Len(steps) THEN [ok |-> FALSE, step |-> "unwrap", value |-> NoValue]
    ELSE IF steps[i][2].some
         THEN [ok |-> TRUE, step |-> steps[i][1], value |-> steps[i][2].val]
         ELSE or_else(steps, i + 1)

\* lines 32-42
find_best_hand(cards) ==
    or_else(<< <<"find_flush", find_flush(cards)>>,
               <<"find_4_oak", find_4_oak(cards)>>,
               <<"find_3_oak_2_oak", find_3_oak_2_oak(cards)>>,
               <<"find_5_iar", find_5_iar(cards)>>,
               <<"find_3_oak", find_3_oak(cards)>>,
               <<"find_2_oak_2_oak", find_2_oak_2_oak(cards)>>,
               <<"find_2_oak", find_2_oak(cards)>>,
               <<"find_1_oak", find_1_oak(cards)>> >>, 1)

\* the hands of the model: at most MaxHand cards of the deck
Hands == {cards \in SUBSET EvalDeck : Cardinality(cards) <= MaxHand}

EvInit ==
    /\ mStore = NoStore
    /\ mCall = NoCall
    /\ mRet = Ok(Zero)
    /\ LkIdle /\ TrIdle /\ QIdle /\ LyIdle

CallFindBestHand ==
    /\ mCall.op = "none"
    /\ \E cards \in Hands :
        /\ mCall' = [op |-> "find_best_hand", a |-> cards, h |-> <<NoHist, NoHist>>]
        /\ mRet' = find_best_hand(cards)
    /\ UNCHANGED <<mStore, lkVars, qVars, lyVars, trVars>>

EvNext == CallFindBestHand \/ Return

SpecEval == EvInit /\ [][EvNext]_vars

\* C28 (as stated): find_best_hand returns FullHouse for every hand, of at
\* most 7 cards and with no flush and no four of a kind, whose rank counts
\* hold one rank of three cards or more and another rank of two cards or
\* more, also when the rank of the pair is above the rank of the triple.
C28_FullHouseFound ==
    (/\ mCall.op = "find_best_hand"
     /\ Cardinality(mCall.a) <= 7
     /\ \A s \in 0..3 : Cardinality({c \in mCall.a : c % 4 = s}) < 5
     /\ \A r \in 0..12 : Cardinality({c \in mCall.a : c \div 4 = r}) < 4
     /\ \E r, q \in 0..12 :
          /\ r # q
          /\ Cardinality({c \in mCall.a : c \div 4 = r}) >= 3
          /\ Cardinality({c \in mCall.a : c \div 4 = q}) >= 2)
    => (mRet.ok /\ mRet.value.kind = "FullHouse")

\* C29: in find_best_hand the step find_2_oak never decides the result:
\* whenever some rank has two cards or more, find_2_oak_2_oak, tried before
\* it, already returns TwoPair or OnePair, so that find_2_oak is reached
\* only where it returns None.
C29_SinglePairStepIsDead ==
    mCall.op = "find_best_hand" =>
        /\ mRet.step # "find_2_oak"
        /\ (\E r \in 0..12 : Cardinality({c \in mCall.a : c \div 4 = r}) >= 2) =>
                /\ find_2_oak_2_oak(mCall.a).some
                /\ find_2_oak_2_oak(mCall.a).val.kind \in {"TwoPair", "OnePair"}
                /\ mRet.step \in {"find_flush", "find_4_oak", "find_3_oak_2_oak",
                                  "find_5_iar", "find_3_oak", "find_2_oak_2_oak"}
        /\ mRet.step \in {"find_1_oak", "unwrap"} => ~find_2_oak(mCall.a).some

\* a hand of five cards, one pair and nothing better: the step of the two pairs
\* returned OnePair, of the rank find_2_oak would have given
C29_Witness ==
    /\ mCall.op = "find_best_hand"
    /\ mRet.step = "find_2_oak_2_oak"
    /\ mRet.value.kind = "OnePair"
    /\ find_2_oak(mCall.a) = Some(mRet.value)
    /\ Cardinality(mCall.a) = 5

(***************************************************************************)
(* SpecTree: the game tree of tree.rs, a petgraph DiGraph<Data, Edge>.     *)
(* A NodeIndex i is the position i + 1 of trGraph.nodes; an edge is the    *)
(* record of its two NodeIndex ends and its Edge weight.                    *)
(***************************************************************************)
MaxNodes == 4                    \* nodes the arena holds at most
TreeGames == {0, 1}              \* the Game states a Data can hold
TreeEdges == {"Check", "Raise"}  \* the Edge labels of a branch

\* DiGraph::add_node: the new index is the number of nodes before the push
add_node(g, data) ==
    [graph |-> [g EXCEPT !.nodes = Append(@, data)], index |-> Len(g.nodes)]

\* an edge pushed with its ends swapped
add_edge_reversed(g, a, b, w) ==
    IF a < Len(g.nodes) /\ b < Len(g.nodes)
    THEN [ok |-> TRUE,
          graph |-> [g EXCEPT !.edges =
                        Append(@, [source |-> b, weight |-> w, target |-> a])]]
    ELSE [ok |-> FALSE, graph |-> g]

\* DiGraph::add_edge(a, b, weight): panics when an end is no node of the
\* graph; a == b (a self loop) and parallel edges are accepted
add_edge(g, a, b, w) ==
    IF a < Len(g.nodes) /\ b < Len(g.nodes)
    THEN [ok |-> TRUE,
          graph |-> [g EXCEPT !.edges =
                        Append(@, [source |-> a, weight |-> w, target |-> b])]]
    ELSE [ok |-> FALSE, graph |-> g]

\* Node::localization: the bucket of the node at index i, read off the graph
localization(g, i) == [some |-> TRUE, present |-> g.nodes[i + 1].game]

\* Tree::insert: add_node, then Data::assign of the bucket on the new node
insert(g, data) ==
    LET added == add_node(g, data)
        bucket == localization(added.graph, added.index)
    IN  [ok |-> TRUE,
         graph |-> [added.graph EXCEPT !.nodes[added.index + 1].bucket = bucket],
         index |-> added.index]

\* Tree::attach: insert of branch.0, then add_edge(branch.2, leaf, branch.1)
attach(g, branch) ==
    LET leaf == insert(g, branch[1])
        edge == add_edge(leaf.graph, branch[3], leaf.index, branch[2])
    IN  [ok |-> edge.ok, graph |-> edge.graph, index |-> leaf.index]

\* Tree::all: the indices of the nodes
all(g) == 0..(Len(g.nodes) - 1)

\* Encoding::branches(node): one Branch per child of the node, each with
\* node.index() as its parent
branches(g, i) ==
    {Branch(Data(game), edge, i) : game \in TreeGames, edge \in TreeEdges}

\* every Branch a caller can hand to Tree::attach
Branches ==
    {Branch(Data(game), edge, root) :
        game \in TreeGames, edge \in TreeEdges, root \in 0..MaxNodes}

TrInit == TrIdle /\ EmdIdle /\ LkIdle /\ QIdle /\ LyIdle

\* tree.insert(data)
TreeInsert ==
    /\ trRet.ok
    /\ Len(trGraph.nodes) < MaxNodes
    /\ \E game \in TreeGames :
        \E r \in {insert(trGraph, Data(game))} :
            /\ trCall' = [op |-> "insert", branch |-> Branch(Data(game), "none", 0)]
            /\ trGraph' = r.graph
            /\ trRet' = [ok |-> r.ok, index |-> r.index]
    /\ UNCHANGED <<emdVars, lkVars, qVars, lyVars>>

\* tree.attach(branch) for a branch of Encoding::branches(tree.at(i))
TreeAttachBranches ==
    /\ trRet.ok
    /\ Len(trGraph.nodes) < MaxNodes
    /\ \E i \in all(trGraph) :
        \E branch \in branches(trGraph, i) :
            \E r \in {attach(trGraph, branch)} :
                /\ trCall' = [op |-> "attach", branch |-> branch]
                /\ trGraph' = r.graph
                /\ trRet' = [ok |-> r.ok, index |-> r.index]
    /\ UNCHANGED <<emdVars, lkVars, qVars, lyVars>>

\* tree.attach(branch) for any Branch
TreeAttach ==
    /\ trRet.ok
    /\ Len(trGraph.nodes) < MaxNodes
    /\ \E branch \in Branches :
        \E r \in {attach(trGraph, branch)} :
            /\ trCall' = [op |-> "attach", branch |-> branch]
            /\ trGraph' = r.graph
            /\ trRet' = [ok |-> r.ok, index |-> r.index]
    /\ UNCHANGED <<emdVars, lkVars, qVars, lyVars>>

TrNext == TreeInsert \/ TreeAttachBranches \/ TreeAttach

SpecTree == TrInit /\ [][TrNext]_vars

\* the edges of g that end in the node i
incoming(g, i) == {e \in 1..Len(g.edges) : g.edges[e].target = i}

\* a rooted tree over a dense arena: node 0 is the root and has no incoming
\* edge, every other node has exactly one, from a node inserted before it
rooted(g) ==
    /\ Len(g.nodes) >= 1
    /\ incoming(g, 0) = {}
    /\ \A i \in all(g) \ {0} : Cardinality(incoming(g, i)) = 1
    /\ \A e \in 1..Len(g.edges) :
        /\ g.edges[e].source \in all(g)
        /\ g.edges[e].target \in all(g)
        /\ g.edges[e].source < g.edges[e].target

\* C30: after one Tree::insert of the root and any attach calls whose parent
\* index already exists, the graph is a rooted tree over a dense arena: the
\* first insert returns index 0, each such attach returns the next index,
\* adds exactly one node and exactly one edge from the branch's parent to
\* the new node, and leaves every existing node and edge as it was.
C30_RootedDenseArena ==
    /\ [][(trCall'.op = "insert" /\ trGraph = NoGraph) =>
            /\ trRet' = [ok |-> TRUE, index |-> 0]
            /\ Len(trGraph'.nodes) = 1
            /\ trGraph'.edges = <<>>
            /\ rooted(trGraph')]_vars
    /\ [][(trCall'.op = "attach" /\ rooted(trGraph)
              /\ trCall'.branch[3] \in all(trGraph)) =>
            /\ trRet' = [ok |-> TRUE, index |-> Len(trGraph.nodes)]
            /\ Len(trGraph'.nodes) = Len(trGraph.nodes) + 1
            /\ SubSeq(trGraph'.nodes, 1, Len(trGraph.nodes)) = trGraph.nodes
            /\ trGraph'.nodes[Len(trGraph'.nodes)].game = trCall'.branch[1].game
            /\ trGraph'.edges =
                  Append(trGraph.edges,
                         [source |-> trCall'.branch[3],
                          weight |-> trCall'.branch[2],
                          target |-> Len(trGraph.nodes)])
            /\ rooted(trGraph')]_vars

\* a full arena built by one insert and attaches: a rooted tree in which
\* the root has two children and one of them has a child of its own
C30_Witness ==
    /\ trCall.op = "attach"
    /\ trRet = [ok |-> TRUE, index |-> MaxNodes - 1]
    /\ rooted(trGraph)
    /\ Len(trGraph.nodes) = MaxNodes
    /\ Len(trGraph.edges) = MaxNodes - 1
    /\ Cardinality({e \in 1..Len(trGraph.edges) : trGraph.edges[e].source = 0}) = 2
    /\ \E e \in 1..Len(trGraph.edges) : trGraph.edges[e].source # 0

====
